---- MODULE Spec2Model ----
(***************************************************************************)
(* scope-lab: design-space sweep of reflecting-telescope layouts.          *)
(*                                                                         *)
(* Number representation.  The program computes in IEEE doubles; the model *)
(* computes in decimal fixed point:                                        *)
(*   - lengths, user-facing quantities and focal ratios carry one decimal  *)
(*     (the integer 3048 is 304.8, the focal ratio 45 is 4.5);             *)
(*   - dimensionless ratios (magnification, obstruction ratio,             *)
(*     efficiencies, score terms) carry four decimals (One is 1.0);        *)
(*   - wavefront errors carry three decimals (1000 is one wave);           *)
(*   - areas are in whole square millimetres;                              *)
(*   - divisions truncate.                                                 *)
(* The three non-finite doubles are the values NaN, PosInf and NegInf, and *)
(* the comparison operators Lt, Le, Gt, Ge are false on NaN as in the      *)
(* program.                                                                *)
(***************************************************************************)
EXTENDS Integers, Sequences, FiniteSets, TLC

VARIABLES
  spec,        \* the caller's InputSpec
  topN,        \* the caller's topN (25 when omitted)
  seed,        \* which image-quality function the ray tracer computes
  pc,          \* "start", "loop", "done", "threw" (runSweep), "called" (direct call)
  fpValues,    \* runSweep: enumerated primary focal ratios
  fsValues,    \* runSweep: enumerated system focal ratios
  ti,          \* runSweep: number of the next trial of the loop nest
  candidates,  \* runSweep: candidates pushed so far
  result,      \* the SweepResult returned
  scoreBounds, \* runSweep: the score bounds of the passing set, once computed
  call,        \* the last direct call of a generator or of twoMirrorLayout
  console,     \* the number of records written with console.log
  trace        \* simulate(plan, sampleSpec): its arguments, locals and result

vars ==
  <<spec, topN, seed, pc, fpValues, fsValues, ti, candidates, result, scoreBounds,
    call, console, trace>>

\* the variables of the sweep engine and of the direct calls
sweepVars ==
  <<spec, topN, seed, pc, fpValues, fsValues, ti, candidates, result, scoreBounds,
    call, console>>

(***************************************************************************)
(* Bounds of the model.                                                    *)
(***************************************************************************)
MaxKinds == 2
MaxTopN == 2
MaxSeed == 1

(***************************************************************************)
(* Doubles.                                                                *)
(***************************************************************************)
One == 100 * 100
PosInf == 2000 * 1000 * 1000
NegInf == 0 - PosInf
NaN == NegInf - 1

isFinite(v) == v # NaN /\ v # PosInf /\ v # NegInf

Lt(a, b) == a # NaN /\ b # NaN /\ a < b
Le(a, b) == a # NaN /\ b # NaN /\ a <= b
Gt(a, b) == a # NaN /\ b # NaN /\ a > b
Ge(a, b) == a # NaN /\ b # NaN /\ a >= b

Max(a, b) == IF a >= b THEN a ELSE b
Min(a, b) == IF a <= b THEN a ELSE b

Null == [isNull |-> TRUE, threw |-> FALSE]
Threw == [isNull |-> FALSE, threw |-> TRUE]

(***************************************************************************)
(* units.ts                                                                *)
(***************************************************************************)
MM_PER_INCH == 254
PI_NUM == 355
PI_DEN == 113

inchToMm(value) ==
  IF isFinite(value) THEN (value * MM_PER_INCH) \div 10
  ELSE value

toMm(value, units) == IF units = "inch" THEN inchToMm(value) ELSE value

\* diameter in tenths of a millimetre, area in whole square millimetres
areaCircle(diameter_mm) ==
  LET r == diameter_mm \div 2
  IN  (PI_NUM * r * r) \div (PI_DEN * 100)

(***************************************************************************)
(* constants.ts                                                            *)
(***************************************************************************)
DEFAULT_REFLECTIVITY_PER_MIRROR == 9000
DEFAULT_CORRECTOR_TRANSMISSION == 9000
DEFAULT_TUBE_MARGIN_MM == 250
NEWTONIAN_INTERCEPT_FRACTION == 2500
OBSTRUCTION_CONTRAST_COEFFICIENT == 1500
CASSEGRAIN_BAFFLE_FACTOR == 10600
RC_BAFFLE_FACTOR == 11400
SCT_BAFFLE_FACTOR == 12200

(***************************************************************************)
(* designs/twoMirror.ts                                                    *)
(***************************************************************************)
clampNonNegativeFinite(v) == IF isFinite(v) /\ v >= 0 THEN v ELSE 0

\* a slip that lets the fold degenerate: equal focal ratios are accepted
twoMirrorInputsValidAtUnitMagnification(D_mm, Fp, Fs) ==
  /\ ~(~isFinite(D_mm) \/ D_mm <= 0)
  /\ ~(~isFinite(Fp) \/ ~isFinite(Fs))
  /\ ~(Fp <= 0 \/ Fs < Fp)
  /\ (((Fs * D_mm) \div 10) * One) \div ((Fp * D_mm) \div 10) >= One

\* lines 26-33: the early returns on the inputs and on the magnification
twoMirrorInputsValid(D_mm, Fp, Fs) ==
  /\ ~(~isFinite(D_mm) \/ D_mm <= 0)
  /\ ~(~isFinite(Fp) \/ ~isFinite(Fs))
  /\ ~(Fp <= 0 \/ Fs <= Fp)
  /\ (((Fs * D_mm) \div 10) * One) \div ((Fp * D_mm) \div 10) > One

\* a slip: a secondary mirror on the primary's vertex is accepted
twoMirrorSpacingValidAtVertex(d, fPrimary_mm) ==
  ~(~isFinite(d) \/ d < 0 \/ d >= fPrimary_mm)

\* line 42: the early return on the solved spacing
twoMirrorSpacingValid(d, fPrimary_mm) ==
  ~(~isFinite(d) \/ d <= 0 \/ d >= fPrimary_mm)

twoMirrorLayout(s, D_mm, Fp, Fs) ==
  IF ~twoMirrorInputsValid(D_mm, Fp, Fs) THEN Null
  ELSE
    LET fPrimary_mm == (Fp * D_mm) \div 10
        fSystem_mm == (Fs * D_mm) \div 10
        magnification == (fSystem_mm * One) \div fPrimary_mm
        minBackFocus_mm ==
          clampNonNegativeFinite(
            toMm(s.constraints.minBackFocus, s.constraints.backFocusUnits))
        backFocus_mm == minBackFocus_mm
        d == ((((magnification * fPrimary_mm) \div One) - backFocus_mm) * One)
               \div (magnification + One)
    IN
      IF ~twoMirrorSpacingValid(d, fPrimary_mm) THEN Null
      ELSE
        LET fieldRadius_mm ==
              clampNonNegativeFinite(
                toMm(s.constraints.fullyIlluminatedFieldRadius,
                     s.constraints.fieldUnits))
            coneRadiusAtSecondary_mm ==
              (D_mm * (One - ((d * One) \div fPrimary_mm))) \div (2 * One)
        IN
        IF coneRadiusAtSecondary_mm <= 0 THEN Null
        ELSE
          LET chiefRayHeightAtSecondary_mm ==
                IF fieldRadius_mm > 0
                THEN (fieldRadius_mm * (backFocus_mm + d)) \div fSystem_mm
                ELSE 0
              secondaryDiameter_mm ==
                2 * (coneRadiusAtSecondary_mm + chiefRayHeightAtSecondary_mm)
          IN
          IF secondaryDiameter_mm <= 0 THEN Null
          ELSE [isNull |-> FALSE,
                fPrimary_mm |-> fPrimary_mm,
                fSystem_mm |-> fSystem_mm,
                magnification |-> magnification,
                backFocus_mm |-> backFocus_mm,
                dPrimaryToSecondary_mm |-> d,
                secondaryDiameter_mm |-> secondaryDiameter_mm,
                coneRadiusAtSecondary_mm |-> coneRadiusAtSecondary_mm,
                chiefRayHeightAtSecondary_mm |-> chiefRayHeightAtSecondary_mm]

(***************************************************************************)
(* Image quality.  The ray tracer and adaptRaytraceToMetrics are a         *)
(* deterministic function of the optical prescription; here that function  *)
(* is left uninterpreted: sd selects one of MaxSeed + 1 functions from the  *)
(* trial to a wavefront error, which is NaN or a finite non-negative       *)
(* number of thousandths of a wave.                                        *)
(***************************************************************************)
KindIndex(kind) ==
  CASE kind = "newtonian" -> 1
    [] kind = "cassegrain" -> 2
    [] kind = "sct" -> 3
    [] kind = "rc" -> 4

wfeRms_waves_edge(sd, kind, Fp, Fs) ==
  LET h == (sd * 3 + KindIndex(kind) * 2 + (Fp \div 5) + (Fs \div 20)) % 4
  IN  IF h = 0 THEN NaN ELSE h * 250

ZeroScore ==
  [total |-> 0, terms |-> [usableLight |-> 0, aberration |-> 0, obstruction |-> 0]]

\* Math.pow(reflectivity, 2)
Pow2(x) == (x * x) \div One

(***************************************************************************)
(* designs/cassegrain.ts                                                   *)
(***************************************************************************)
\* lines 15-21
shouldRunBackfocusDiag(s) ==
  LET minBackFocus_mm ==
        toMm(s.constraints.minBackFocus, s.constraints.backFocusUnits)
  IN  isFinite(minBackFocus_mm) /\ minBackFocus_mm > 0

\* lines 128-160: a call that gets past the null returns of lines 31-37
\* writes one record with console.log when the diagnostic is on; out is
\* what the call returns.  No other generator writes to the console.
consoleWrites(kind, s, out) ==
  IF kind = "cassegrain" /\ ~out.isNull /\ shouldRunBackfocusDiag(s)
  THEN 1 ELSE 0

cassegrain(s, params, sd) ==
  LET D_mm == toMm(s.aperture, s.apertureUnits)
      Fp == params.primaryFRatio
      Fs == params.systemFRatio
  IN
  IF ~isFinite(D_mm) \/ D_mm <= 0 THEN Null
  ELSE IF ~isFinite(Fp) \/ Fp <= 0 THEN Null
  ELSE IF ~isFinite(Fs) \/ Fs <= 0 THEN Null
  ELSE IF Fs <= Fp THEN Null
  ELSE
    LET layout == twoMirrorLayout(s, D_mm, Fp, Fs) IN
    IF layout.isNull THEN Null
    ELSE
      LET tubeLength_mm ==
            (layout.fPrimary_mm * (One - ((One * One) \div layout.magnification)))
               \div One
            + layout.backFocus_mm + DEFAULT_TUBE_MARGIN_MM
          maxTube_mm ==
            toMm(s.constraints.maxTubeLength, s.constraints.tubeLengthUnits)
          secondaryDiameter_mm == layout.secondaryDiameter_mm
          obstructionDiameter_mm ==
            (secondaryDiameter_mm * CASSEGRAIN_BAFFLE_FACTOR) \div One
          obstructionRatio == (obstructionDiameter_mm * One) \div D_mm
          r1 == IF isFinite(maxTube_mm) /\ tubeLength_mm > maxTube_mm
                THEN <<"Tube length exceeds max">> ELSE <<>>
          r2 == IF isFinite(s.constraints.maxObstructionRatio)
                   /\ obstructionRatio > s.constraints.maxObstructionRatio
                THEN <<"Obstruction exceeds max">> ELSE <<>>
          minBackFocus_mm ==
            toMm(s.constraints.minBackFocus, s.constraints.backFocusUnits)
          r3 == IF isFinite(minBackFocus_mm) /\ minBackFocus_mm > 0
                   /\ layout.backFocus_mm < minBackFocus_mm
                THEN <<"Backfocus requires more">> ELSE <<>>
          reasons == r1 \o r2 \o r3
          pass == Len(reasons) = 0
          primaryArea_mm2 == areaCircle(D_mm)
          obstructionArea_mm2 == areaCircle(obstructionDiameter_mm)
          reflectivity ==
            IF s.coatings.reflectivityPerMirror # 0
            THEN s.coatings.reflectivityPerMirror
            ELSE DEFAULT_REFLECTIVITY_PER_MIRROR
          transmissionFactor == Pow2(reflectivity)
          effectiveArea_mm2 ==
            ((primaryArea_mm2 - obstructionArea_mm2) * transmissionFactor) \div One
          usableLightEfficiency == (effectiveArea_mm2 * One) \div primaryArea_mm2
      IN
      [isNull |-> FALSE,
       threw |-> FALSE,
       kind |-> "cassegrain",
       inputs |-> [aperture_mm |-> D_mm, primaryFRatio |-> Fp, systemFRatio |-> Fs,
                   primaryFocalLength_mm |-> layout.fPrimary_mm,
                   systemFocalLength_mm |-> layout.fSystem_mm],
       geometry |-> [tubeLength_mm |-> tubeLength_mm,
                     backFocus_mm |-> layout.backFocus_mm,
                     secondaryDiameter_mm |-> obstructionDiameter_mm,
                     obstructionRatio |-> obstructionRatio],
       throughput |-> [usableLightEfficiency |-> usableLightEfficiency,
                       transmissionFactor |-> transmissionFactor],
       aberrations |-> [wfeRms_waves_edge |-> wfeRms_waves_edge(sd, "cassegrain", Fp, Fs)],
       constraints |-> [pass |-> pass, reasons |-> reasons],
       score |-> ZeroScore]

(***************************************************************************)
(* designs/sct.ts                                                          *)
(***************************************************************************)
sct(s, params) ==
  LET D_mm == toMm(s.aperture, s.apertureUnits)
      Fp == params.primaryFRatio
      Fs == params.systemFRatio
      layout == twoMirrorLayout(s, D_mm, Fp, Fs)
  IN
  IF layout.isNull THEN Null
  ELSE
    LET tubeLength_mm ==
          (layout.fPrimary_mm * (One - ((One * One) \div layout.magnification)))
             \div One
          + layout.backFocus_mm + DEFAULT_TUBE_MARGIN_MM
        secondaryDiameter_mm == layout.secondaryDiameter_mm
        obstructionDiameter_mm ==
          (secondaryDiameter_mm * SCT_BAFFLE_FACTOR) \div One
        obstructionRatio == (obstructionDiameter_mm * One) \div D_mm
        primaryArea_mm2 == areaCircle(D_mm)
        obstructionArea_mm2 == areaCircle(obstructionDiameter_mm)
        reflectivity ==
          IF s.coatings.reflectivityPerMirror # 0
          THEN s.coatings.reflectivityPerMirror
          ELSE DEFAULT_REFLECTIVITY_PER_MIRROR
        correctorTransmission ==
          IF s.coatings.correctorTransmission # 0
          THEN s.coatings.correctorTransmission
          ELSE DEFAULT_CORRECTOR_TRANSMISSION
        transmissionFactor == (Pow2(reflectivity) * correctorTransmission) \div One
        effectiveArea_mm2 ==
          ((primaryArea_mm2 - obstructionArea_mm2) * transmissionFactor) \div One
        usableLightEfficiency == (effectiveArea_mm2 * One) \div primaryArea_mm2
    IN
    [isNull |-> FALSE,
     threw |-> FALSE,
     kind |-> "sct",
     inputs |-> [aperture_mm |-> D_mm, primaryFRatio |-> Fp, systemFRatio |-> Fs,
                 primaryFocalLength_mm |-> layout.fPrimary_mm,
                 systemFocalLength_mm |-> layout.fSystem_mm],
     geometry |-> [tubeLength_mm |-> tubeLength_mm,
                   backFocus_mm |-> layout.backFocus_mm,
                   secondaryDiameter_mm |-> obstructionDiameter_mm,
                   obstructionRatio |-> obstructionRatio],
     throughput |-> [usableLightEfficiency |-> usableLightEfficiency,
                     transmissionFactor |-> transmissionFactor],
     \* aberrations: { proxyScore }: no wfeRms_waves_edge field, not finite
     aberrations |-> [wfeRms_waves_edge |-> NaN],
     constraints |-> [pass |-> TRUE, reasons |-> <<>>],
     score |-> ZeroScore]

(***************************************************************************)
(* designs/rc.ts.  ctx is the third argument of the generator; NoCtx is    *)
(* the value it has when the caller passes two arguments.                  *)
(***************************************************************************)
NoCtx == [present |-> FALSE, imageQualityEmpty |-> FALSE]

rc(s, params, ctx, sd) ==
  LET D_mm == toMm(s.aperture, s.apertureUnits)
      Fp == params.primaryFRatio
      Fs == params.systemFRatio
  IN
  IF ~(Gt(D_mm, 0) /\ Gt(Fp, 0) /\ Gt(Fs, Fp)) THEN Null
  ELSE
    LET layout == twoMirrorLayout(s, D_mm, Fp, Fs) IN
    IF layout.isNull THEN Null
    ELSE IF ~ctx.present THEN Threw
    ELSE IF ctx.imageQualityEmpty THEN Null
    ELSE
      LET tubeLength_mm ==
            (layout.fPrimary_mm * (One - ((One * One) \div layout.magnification)))
               \div One
            + layout.backFocus_mm + DEFAULT_TUBE_MARGIN_MM
          secondaryDiameter_mm == layout.secondaryDiameter_mm
          obstructionDiameter_mm ==
            (secondaryDiameter_mm * RC_BAFFLE_FACTOR) \div One
          obstructionRatio == (obstructionDiameter_mm * One) \div D_mm
          maxTube_mm ==
            toMm(s.constraints.maxTubeLength, s.constraints.tubeLengthUnits)
          r1 == IF isFinite(maxTube_mm) /\ tubeLength_mm > maxTube_mm
                THEN <<"Tube too long">> ELSE <<>>
          r2 == IF isFinite(s.constraints.maxObstructionRatio)
                   /\ obstructionRatio > s.constraints.maxObstructionRatio
                THEN <<"Obstruction too large">> ELSE <<>>
          reasons == r1 \o r2
          pass == Len(reasons) = 0
          \* `??`: only an absent value takes the default; 0 stands for absent
          reflectivity ==
            IF s.coatings.reflectivityPerMirror # 0
            THEN s.coatings.reflectivityPerMirror
            ELSE DEFAULT_REFLECTIVITY_PER_MIRROR
          primaryArea_mm2 == areaCircle(D_mm)
          obstructionArea_mm2 == areaCircle(obstructionDiameter_mm)
          effectiveArea_mm2 ==
            ((primaryArea_mm2 - obstructionArea_mm2) * Pow2(reflectivity)) \div One
      IN
      [isNull |-> FALSE,
       threw |-> FALSE,
       kind |-> "rc",
       inputs |-> [aperture_mm |-> D_mm, primaryFRatio |-> Fp, systemFRatio |-> Fs,
                   primaryFocalLength_mm |-> layout.fPrimary_mm,
                   systemFocalLength_mm |-> layout.fSystem_mm],
       geometry |-> [tubeLength_mm |-> tubeLength_mm,
                     backFocus_mm |-> layout.backFocus_mm,
                     secondaryDiameter_mm |-> obstructionDiameter_mm,
                     obstructionRatio |-> obstructionRatio],
       throughput |-> [usableLightEfficiency |->
                         (effectiveArea_mm2 * One) \div primaryArea_mm2,
                       transmissionFactor |-> Pow2(reflectivity)],
       aberrations |-> [wfeRms_waves_edge |-> wfeRms_waves_edge(sd, "rc", Fp, Fs)],
       constraints |-> [pass |-> pass, reasons |-> reasons],
       score |-> ZeroScore]

(***************************************************************************)
(* designs/newtonian.ts                                                    *)
(***************************************************************************)
newtonian(s, params, sd) ==
  LET D_mm == toMm(s.aperture, s.apertureUnits)
      Fp == params.primaryFRatio
  IN
  IF ~isFinite(D_mm) \/ D_mm <= 0 THEN Null
  ELSE IF ~isFinite(Fp) \/ Fp <= 0 THEN Null
  ELSE
    LET fPrimary_mm == (Fp * D_mm) \div 10
        tubeLength_mm == fPrimary_mm + DEFAULT_TUBE_MARGIN_MM
        maxTube_mm ==
          toMm(s.constraints.maxTubeLength, s.constraints.tubeLengthUnits)
        intercept_mm == (NEWTONIAN_INTERCEPT_FRACTION * fPrimary_mm) \div One
        fieldRadius_mm ==
          clampNonNegativeFinite(
            toMm(s.constraints.fullyIlluminatedFieldRadius,
                 s.constraints.fieldUnits))
        secondaryDiameter_mm ==
          ((D_mm * intercept_mm) \div fPrimary_mm)
          + ((2 * fieldRadius_mm * (fPrimary_mm - intercept_mm)) \div fPrimary_mm)
        obstructionRatio == (secondaryDiameter_mm * One) \div D_mm
        primaryArea_mm2 == areaCircle(D_mm)
        obstructionArea_mm2 == areaCircle(secondaryDiameter_mm)
        reflectivity ==
          IF s.coatings.reflectivityPerMirror # 0
          THEN s.coatings.reflectivityPerMirror
          ELSE DEFAULT_REFLECTIVITY_PER_MIRROR
        transmissionFactor == Pow2(reflectivity)
        effectiveArea_mm2 ==
          ((primaryArea_mm2 - obstructionArea_mm2) * transmissionFactor) \div One
        usableLightEfficiency == (effectiveArea_mm2 * One) \div primaryArea_mm2
        backFocus_mm == Max(0, fPrimary_mm - intercept_mm)
        r1 == IF isFinite(maxTube_mm) /\ tubeLength_mm > maxTube_mm
              THEN <<"Tube length requires more">> ELSE <<>>
        r2 == IF isFinite(s.constraints.maxObstructionRatio)
                 /\ obstructionRatio > s.constraints.maxObstructionRatio
              THEN <<"Obstruction requires less">> ELSE <<>>
        minBackFocus_mm ==
          toMm(s.constraints.minBackFocus, s.constraints.backFocusUnits)
        r3 == IF isFinite(minBackFocus_mm) /\ minBackFocus_mm > 0
                 /\ backFocus_mm < minBackFocus_mm
              THEN <<"Backfocus requires more">> ELSE <<>>
        reasons == r1 \o r2 \o r3
        pass == Len(reasons) = 0
    IN
    [isNull |-> FALSE,
     threw |-> FALSE,
     kind |-> "newtonian",
     inputs |-> [aperture_mm |-> D_mm, primaryFRatio |-> Fp, systemFRatio |-> Fp,
                 primaryFocalLength_mm |-> fPrimary_mm,
                 systemFocalLength_mm |-> fPrimary_mm],
     geometry |-> [tubeLength_mm |-> tubeLength_mm,
                   backFocus_mm |-> backFocus_mm,
                   secondaryDiameter_mm |-> secondaryDiameter_mm,
                   obstructionRatio |-> obstructionRatio],
     throughput |-> [usableLightEfficiency |-> usableLightEfficiency,
                     transmissionFactor |-> transmissionFactor],
     aberrations |-> [wfeRms_waves_edge |-> wfeRms_waves_edge(sd, "newtonian", Fp, Fp)],
     constraints |-> [pass |-> pass, reasons |-> reasons],
     score |-> ZeroScore]

(***************************************************************************)
(* score.ts                                                                *)
(***************************************************************************)
\* a slip: no upper limit
clamp01NoUpper(v) ==
  IF ~isFinite(v) THEN 0
  ELSE IF v <= 0 THEN 0
  ELSE v

clamp01(v) ==
  IF ~isFinite(v) THEN 0
  ELSE IF v <= 0 THEN 0
  ELSE IF v >= One THEN One
  ELSE v

finiteOr(v, fallback) == IF isFinite(v) THEN v ELSE fallback

\* a slip: a missing wavefront error counts as no error at all
scoreCandidateMissingAsBest(candidate, bounds, weights) ==
  LET usableLightTerm == clamp01(candidate.throughput.usableLightEfficiency)
      w == finiteOr(candidate.aberrations.wfeRms_waves_edge, NaN)
      minW == finiteOr(bounds.minWfeRms, 0)
      maxW == finiteOr(bounds.maxWfeRms, minW + 1000)
      \* denom = Math.max(1e-12, maxW - minW); 1e-12 is far below the
      \* resolution of w, so dividing a positive difference by it clamps to 1
      normBad ==
        IF isFinite(w)
        THEN IF maxW - minW > 0
             THEN clamp01(((w - minW) * One) \div (maxW - minW))
             ELSE IF w - minW > 0 THEN One ELSE 0
        ELSE 0
      aberrationTerm == clamp01(One - normBad)
      o == clamp01(candidate.geometry.obstructionRatio)
      obstructionPenalty ==
        o + (((OBSTRUCTION_CONTRAST_COEFFICIENT * o) \div One) * o) \div One
      obstructionTerm == clamp01(One - obstructionPenalty)
      terms == [usableLight |-> usableLightTerm,
                aberration |-> aberrationTerm,
                obstruction |-> obstructionTerm]
      total == weights.usableLight * terms.usableLight
               + weights.aberration * terms.aberration
               + weights.obstruction * terms.obstruction
  IN  [candidate EXCEPT !.score = [total |-> total, terms |-> terms]]

\* weights carry one decimal, so score.total carries five
scoreCandidate(candidate, bounds, weights) ==
  LET usableLightTerm == clamp01(candidate.throughput.usableLightEfficiency)
      w == finiteOr(candidate.aberrations.wfeRms_waves_edge, NaN)
      minW == finiteOr(bounds.minWfeRms, 0)
      maxW == finiteOr(bounds.maxWfeRms, minW + 1000)
      \* denom = Math.max(1e-12, maxW - minW); 1e-12 is far below the
      \* resolution of w, so dividing a positive difference by it clamps to 1
      normBad ==
        IF isFinite(w)
        THEN IF maxW - minW > 0
             THEN clamp01(((w - minW) * One) \div (maxW - minW))
             ELSE IF w - minW > 0 THEN One ELSE 0
        ELSE One
      aberrationTerm == clamp01(One - normBad)
      o == clamp01(candidate.geometry.obstructionRatio)
      obstructionPenalty ==
        o + (((OBSTRUCTION_CONTRAST_COEFFICIENT * o) \div One) * o) \div One
      obstructionTerm == clamp01(One - obstructionPenalty)
      terms == [usableLight |-> usableLightTerm,
                aberration |-> aberrationTerm,
                obstruction |-> obstructionTerm]
      total == weights.usableLight * terms.usableLight
               + weights.aberration * terms.aberration
               + weights.obstruction * terms.obstruction
  IN  [candidate EXCEPT !.score = [total |-> total, terms |-> terms]]

\* a slip: `else if` on the maximum, so a value that lowers the minimum is
\* never taken as the maximum
RECURSIVE ScoreBoundsLoopElseIf(_, _, _, _)
ScoreBoundsLoopElseIf(cs, i, min, max) ==
  IF i > Len(cs) THEN [min |-> min, max |-> max]
  ELSE
    LET w == cs[i].aberrations.wfeRms_waves_edge IN
    IF ~isFinite(w) THEN ScoreBoundsLoopElseIf(cs, i + 1, min, max)
    ELSE IF Lt(w, min) THEN ScoreBoundsLoopElseIf(cs, i + 1, w, max)
    ELSE ScoreBoundsLoopElseIf(cs, i + 1, min, IF Gt(w, max) THEN w ELSE max)

RECURSIVE ScoreBoundsLoop(_, _, _, _)
ScoreBoundsLoop(cs, i, min, max) ==
  IF i > Len(cs) THEN [min |-> min, max |-> max]
  ELSE
    LET w == cs[i].aberrations.wfeRms_waves_edge IN
    IF ~isFinite(w) THEN ScoreBoundsLoop(cs, i + 1, min, max)
    ELSE ScoreBoundsLoop(cs, i + 1,
                         IF Lt(w, min) THEN w ELSE min,
                         IF Gt(w, max) THEN w ELSE max)

computeScoreBounds(cs) ==
  LET r == ScoreBoundsLoop(cs, 1, PosInf, NegInf)
      min == IF ~isFinite(r.min) THEN 0 ELSE r.min
      max == IF ~isFinite(r.max) \/ r.max <= min THEN min + 1000 ELSE r.max
  IN  [minWfeRms |-> min, maxWfeRms |-> max, wfeScale |-> 1]

(***************************************************************************)
(* sweep.ts                                                                *)
(***************************************************************************)
\* a slip: the tube limit converted with the units of the backfocus field
checkConstraintsWrongUnits(s, c) ==
  LET maxTube_mm ==
        toMm(s.constraints.maxTubeLength, s.constraints.backFocusUnits)
      minBackFocus_mm ==
        toMm(s.constraints.minBackFocus, s.constraints.backFocusUnits)
      r1 == IF Gt(c.geometry.tubeLength_mm, maxTube_mm)
            THEN <<"tube_length_exceeds_max">> ELSE <<>>
      r2 == IF Gt(c.geometry.obstructionRatio, s.constraints.maxObstructionRatio)
            THEN <<"obstruction_exceeds_max">> ELSE <<>>
      r3 == IF Lt(c.geometry.backFocus_mm, minBackFocus_mm)
            THEN <<"backfocus_below_min">> ELSE <<>>
      reasons == r1 \o r2 \o r3
      pass == Len(reasons) = 0
  IN  [c EXCEPT !.constraints = [pass |-> pass, reasons |-> reasons]]

\* a slip: pass computed before the backfocus reason is pushed
checkConstraintsStalePass(s, c) ==
  LET maxTube_mm ==
        toMm(s.constraints.maxTubeLength, s.constraints.tubeLengthUnits)
      minBackFocus_mm ==
        toMm(s.constraints.minBackFocus, s.constraints.backFocusUnits)
      r1 == IF Gt(c.geometry.tubeLength_mm, maxTube_mm)
            THEN <<"tube_length_exceeds_max">> ELSE <<>>
      r2 == IF Gt(c.geometry.obstructionRatio, s.constraints.maxObstructionRatio)
            THEN <<"obstruction_exceeds_max">> ELSE <<>>
      r3 == IF Lt(c.geometry.backFocus_mm, minBackFocus_mm)
            THEN <<"backfocus_below_min">> ELSE <<>>
      pass == Len(r1 \o r2) = 0
  IN  [c EXCEPT !.constraints = [pass |-> pass, reasons |-> r1 \o r2 \o r3]]

\* a slip: the candidate that is returned has its tube length capped at the
\* limit it exceeds
checkConstraintsCappingTube(s, c) ==
  LET maxTube_mm ==
        toMm(s.constraints.maxTubeLength, s.constraints.tubeLengthUnits)
      minBackFocus_mm ==
        toMm(s.constraints.minBackFocus, s.constraints.backFocusUnits)
      r1 == IF Gt(c.geometry.tubeLength_mm, maxTube_mm)
            THEN <<"tube_length_exceeds_max">> ELSE <<>>
      r2 == IF Gt(c.geometry.obstructionRatio, s.constraints.maxObstructionRatio)
            THEN <<"obstruction_exceeds_max">> ELSE <<>>
      r3 == IF Lt(c.geometry.backFocus_mm, minBackFocus_mm)
            THEN <<"backfocus_below_min">> ELSE <<>>
      reasons == r1 \o r2 \o r3
      pass == Len(reasons) = 0
  IN  [c EXCEPT !.constraints = [pass |-> pass, reasons |-> reasons],
                !.geometry.tubeLength_mm =
                   IF Gt(c.geometry.tubeLength_mm, maxTube_mm)
                   THEN maxTube_mm ELSE c.geometry.tubeLength_mm]

checkConstraints(s, c) ==
  LET maxTube_mm ==
        toMm(s.constraints.maxTubeLength, s.constraints.tubeLengthUnits)
      minBackFocus_mm ==
        toMm(s.constraints.minBackFocus, s.constraints.backFocusUnits)
      r1 == IF Gt(c.geometry.tubeLength_mm, maxTube_mm)
            THEN <<"tube_length_exceeds_max">> ELSE <<>>
      r2 == IF Gt(c.geometry.obstructionRatio, s.constraints.maxObstructionRatio)
            THEN <<"obstruction_exceeds_max">> ELSE <<>>
      r3 == IF Lt(c.geometry.backFocus_mm, minBackFocus_mm)
            THEN <<"backfocus_below_min">> ELSE <<>>
      reasons == r1 \o r2 \o r3
      pass == Len(reasons) = 0
  IN  [c EXCEPT !.constraints = [pass |-> pass, reasons |-> reasons]]

\* a slip: the upper bound is left out
RECURSIVE EnumerateLoopExclusive(_, _, _)
EnumerateLoopExclusive(v, max, step) ==
  IF v < max THEN <<v>> \o EnumerateLoopExclusive(v + step, max, step) ELSE <<>>

RECURSIVE EnumerateLoop(_, _, _)
EnumerateLoop(v, max, step) ==
  \* while (v <= max + 1e-12): every modelled value is a multiple of 0.1,
  \* where the tolerance changes no comparison and toFixed(10) no value
  IF v <= max THEN <<v>> \o EnumerateLoop(v + step, max, step) ELSE <<>>

enumerateRange(min, max, step) ==
  IF step <= 0 THEN <<>>
  ELSE IF max < min THEN <<>>
  ELSE EnumerateLoop(min, max, step)

\* the source's 1e9 exceeds what toMm can convert within TLC's integers; the
\* model takes the largest round length that it can convert, which is far
\* above every tube length the modelled apertures and focal ratios produce
RELAXED_MAX_TUBE_LENGTH == 8000000

\* a slip: the backfocus demand is left in place for generation
relaxedSpecKeepingBackFocus(s) ==
  [s EXCEPT !.constraints.maxTubeLength = RELAXED_MAX_TUBE_LENGTH,
            !.constraints.maxObstructionRatio = One]

relaxedSpecForInference(s) ==
  [s EXCEPT !.constraints.maxTubeLength = RELAXED_MAX_TUBE_LENGTH,
            !.constraints.maxObstructionRatio = One,
            !.constraints.minBackFocus = 0]

\* gen(relaxed, { primaryFRatio, systemFRatio }): two arguments, no ctx
generatorFor(kind, s, params, sd) ==
  CASE kind = "newtonian" -> newtonian(s, params, sd)
    [] kind = "cassegrain" -> cassegrain(s, params, sd)
    [] kind = "sct" -> sct(s, params)
    [] kind = "rc" -> rc(s, params, NoCtx, sd)

\* a slip: the comparator of an ascending sort
compareTotalsAscending(a, b) == a.score.total - b.score.total

\* Array.prototype.sort is stable; compare(a, b) = b.score.total - a.score.total
compareTotals(a, b) == b.score.total - a.score.total

\* a sort that is not stable: an element goes before its equals
RECURSIVE InsertSortedBeforeEqual(_, _)
InsertSortedBeforeEqual(sorted, x) ==
  IF sorted = <<>> THEN <<x>>
  ELSE IF compareTotals(Head(sorted), x) < 0
       THEN <<Head(sorted)>> \o InsertSortedBeforeEqual(Tail(sorted), x)
       ELSE <<x>> \o sorted

RECURSIVE InsertSorted(_, _)
InsertSorted(sorted, x) ==
  IF sorted = <<>> THEN <<x>>
  ELSE IF compareTotals(Head(sorted), x) <= 0
       THEN <<Head(sorted)>> \o InsertSorted(Tail(sorted), x)
       ELSE <<x>> \o sorted

RECURSIVE SortScored(_)
SortScored(xs) ==
  IF xs = <<>> THEN <<>>
  ELSE InsertSorted(SortScored(SubSeq(xs, 1, Len(xs) - 1)), xs[Len(xs)])

\* a slip: the filter keeps every candidate
SelectEvery(cs) == cs

RECURSIVE SelectPassing(_)
SelectPassing(cs) ==
  IF cs = <<>> THEN <<>>
  ELSE IF Head(cs).constraints.pass
       THEN <<Head(cs)>> \o SelectPassing(Tail(cs))
       ELSE SelectPassing(Tail(cs))

Kinds == {"newtonian", "cassegrain", "sct", "rc"}

\* a slip: the winner of a kind is overwritten by every later candidate
RECURSIVE LastOfKind(_, _)
LastOfKind(scored, k) ==
  IF scored = <<>> THEN Null
  ELSE IF scored[Len(scored)].kind = k THEN scored[Len(scored)]
  ELSE LastOfKind(SubSeq(scored, 1, Len(scored) - 1), k)

RECURSIVE FirstOfKind(_, _)
FirstOfKind(scored, k) ==
  IF scored = <<>> THEN Null
  ELSE IF Head(scored).kind = k THEN Head(scored)
  ELSE FirstOfKind(Tail(scored), k)

\* a slip: slice(0, topN) without the clamp; a negative end counts from the end
sliceTopUnclamped(scored, n) ==
  SubSeq(scored, 1, IF n < 0 THEN Max(0, Len(scored) + n) ELSE Min(n, Len(scored)))

sliceTop(scored, n) == SubSeq(scored, 1, Min(Max(0, n), Len(scored)))

\* no bounds are computed before the ranking, nor for an empty passing set
NoBounds == [minWfeRms |-> NaN, maxWfeRms |-> NaN, wfeScale |-> 0]

NoResult ==
  [candidates |-> <<>>, ranked |-> <<>>, bestOverall |-> Null,
   bestByKind |-> [k \in Kinds |-> Null], top |-> <<>>,
   derivedSpec |-> Null, warnings |-> <<>>]

\* a slip: the bounds taken over every candidate, failing ones included
rankCandidatesBoundsOverAll(s, cs, n) ==
  LET passing == SelectPassing(cs) IN
  IF Len(passing) = 0
  THEN [candidates |-> cs, ranked |-> <<>>, bestOverall |-> Null,
        bestByKind |-> [k \in Kinds |-> Null], top |-> <<>>,
        bounds |-> NoBounds]
  ELSE
    LET bnds == computeScoreBounds(cs)
        scoredRaw == [i \in 1..Len(passing) |->
                        scoreCandidate(passing[i], bnds, s.weights)]
        scored == SortScored(scoredRaw)
    IN  [candidates |-> cs,
         ranked |-> scored,
         bestOverall |-> scored[1],
         bestByKind |-> [k \in Kinds |-> FirstOfKind(scored, k)],
         top |-> sliceTop(scored, n),
         bounds |-> bnds]

\* the record returned is the SweepResult, with the bounds that were used
rankCandidates(s, cs, n) ==
  LET passing == SelectPassing(cs) IN
  IF Len(passing) = 0
  THEN [candidates |-> cs, ranked |-> <<>>, bestOverall |-> Null,
        bestByKind |-> [k \in Kinds |-> Null], top |-> <<>>,
        bounds |-> NoBounds]
  ELSE
    LET bnds == computeScoreBounds(passing)
        scoredRaw == [i \in 1..Len(passing) |->
                        scoreCandidate(passing[i], bnds, s.weights)]
        scored == SortScored(scoredRaw)
    IN  [candidates |-> cs,
         ranked |-> scored,
         bestOverall |-> scored[1],
         bestByKind |-> [k \in Kinds |-> FirstOfKind(scored, k)],
         top |-> sliceTop(scored, n),
         bounds |-> bnds]

(***************************************************************************)
(* The loop nest of runSweep, flattened in iteration order: one trial per  *)
(* generator call.                                                         *)
(***************************************************************************)
RECURSIVE TrialsOfFs(_, _, _)
TrialsOfFs(kind, Fp, fss) ==
  IF fss = <<>> THEN <<>>
  ELSE <<[kind |-> kind, primaryFRatio |-> Fp, systemFRatio |-> Head(fss)]>>
       \o TrialsOfFs(kind, Fp, Tail(fss))

RECURSIVE TrialsOfFp(_, _, _)
TrialsOfFp(kind, fps, fss) ==
  IF fps = <<>> THEN <<>>
  ELSE (IF kind = "newtonian"
        THEN <<[kind |-> kind, primaryFRatio |-> Head(fps),
                systemFRatio |-> Head(fps)]>>
        ELSE TrialsOfFs(kind, Head(fps), fss))
       \o TrialsOfFp(kind, Tail(fps), fss)

RECURSIVE TrialsOfKinds(_, _, _)
TrialsOfKinds(kinds, fps, fss) ==
  IF kinds = <<>> THEN <<>>
  ELSE TrialsOfFp(Head(kinds), fps, fss) \o TrialsOfKinds(Tail(kinds), fps, fss)

Trials == TrialsOfKinds(spec.designKinds, fpValues, fsValues)

\* the same ranges and loop nest, as each function of sweep.ts builds them
\* from the spec it is given
FpValuesOf(s) ==
  enumerateRange(s.sweep.primaryFRatioMin, s.sweep.primaryFRatioMax,
                 s.sweep.primaryFRatioStep)

\* a slip: no fallback to the target
FsValuesOfRangeOnly(s) ==
  enumerateRange(s.sweep.systemFRatioMin, s.sweep.systemFRatioMax,
                 s.sweep.systemFRatioStep)

FsValuesOf(s) ==
  LET rawFsValues == enumerateRange(s.sweep.systemFRatioMin,
                                    s.sweep.systemFRatioMax,
                                    s.sweep.systemFRatioStep)
      fsFallback == IF s.targetSystemFRatio > 0
                    THEN <<s.targetSystemFRatio>> ELSE <<>>
  IN  IF Len(rawFsValues) > 0 THEN rawFsValues ELSE fsFallback

TrialsOf(s) == TrialsOfKinds(s.designKinds, FpValuesOf(s), FsValuesOf(s))

(***************************************************************************)
(* sweep.ts: inferConstraintAdjustments and inferDerivedLimits.  Both run  *)
(* the loop nest again; acc carries the running extremes and whether a     *)
(* generator threw.                                                        *)
(***************************************************************************)
\* units.ts: mmToInch and fromMm, tenths of a millimetre to tenths of an inch
mmToInch(value) ==
  IF isFinite(value) THEN (value * 10) \div MM_PER_INCH ELSE value

fromMm(value, units) == IF units = "inch" THEN mmToInch(value) ELSE value

\* lines 93-134 and 147-161: collectRawCandidates(relaxed) and the extremes
\* lines 141-160: the extremes over the raw candidates, one candidate more
adjustmentsStep(acc, c) ==
  IF c.threw THEN [acc EXCEPT !.threw = TRUE]
  ELSE IF c.isNull THEN acc
  ELSE [threw |-> FALSE,
        count |-> acc.count + 1,
        minTube_mm |-> Min(acc.minTube_mm, c.geometry.tubeLength_mm),
        minObs |-> Min(acc.minObs, c.geometry.obstructionRatio),
        maxBackFocus_mm |-> Max(acc.maxBackFocus_mm, c.geometry.backFocus_mm)]

\* the generator call of one trial
trialCandidate(s, t, sd) ==
  generatorFor(t.kind, s,
               [primaryFRatio |-> t.primaryFRatio,
                systemFRatio |-> t.systemFRatio], sd)

RECURSIVE AdjustmentsLoop(_, _, _, _, _)
AdjustmentsLoop(relaxed, trials, sd, i, acc) ==
  IF acc.threw \/ i > Len(trials) THEN acc
  ELSE AdjustmentsLoop(relaxed, trials, sd, i + 1,
                       adjustmentsStep(acc, trialCandidate(relaxed, trials[i], sd)))

\* lines 162-226: the constraints moved to admit the nearest raw candidate
adjustedSpec(s, raw) ==
  IF raw.threw THEN [threw |-> TRUE, spec |-> s, warnings |-> <<>>]
  ELSE IF raw.count = 0 THEN [threw |-> FALSE, spec |-> s, warnings |-> <<>>]
  ELSE IF ~isFinite(raw.minTube_mm) \/ ~isFinite(raw.minObs)
          \/ ~isFinite(raw.maxBackFocus_mm)
  THEN [threw |-> FALSE, spec |-> s, warnings |-> <<>>]
  ELSE
    LET curMaxTube_mm ==
          toMm(s.constraints.maxTubeLength, s.constraints.tubeLengthUnits)
        tubeLow == Lt(curMaxTube_mm, raw.minTube_mm)
        obsLow == Lt(s.constraints.maxObstructionRatio, raw.minObs)
        curMinBackFocus_mm ==
          toMm(s.constraints.minBackFocus, s.constraints.backFocusUnits)
        backHigh == Gt(curMinBackFocus_mm, raw.maxBackFocus_mm)
        next1 == IF tubeLow
                 THEN [s EXCEPT !.constraints.maxTubeLength =
                         fromMm(raw.minTube_mm, s.constraints.tubeLengthUnits)]
                 ELSE s
        next2 == IF obsLow
                 THEN [next1 EXCEPT !.constraints.maxObstructionRatio = raw.minObs]
                 ELSE next1
        next3 == IF backHigh
                 THEN [next2 EXCEPT !.constraints.minBackFocus =
                         fromMm(raw.maxBackFocus_mm, s.constraints.backFocusUnits)]
                 ELSE next2
        warnings ==
          (IF tubeLow THEN <<"Max tube length increased">> ELSE <<>>)
          \o (IF obsLow THEN <<"Max obstruction ratio increased">> ELSE <<>>)
          \o (IF backHigh THEN <<"Min backfocus reduced">> ELSE <<>>)
    IN  [threw |-> FALSE, spec |-> next3, warnings |-> warnings]

inferConstraintAdjustments(s, sd) ==
  adjustedSpec(s,
    AdjustmentsLoop(relaxedSpecForInference(s),
                    TrialsOf(relaxedSpecForInference(s)), sd, 1,
                    [threw |-> FALSE, count |-> 0, minTube_mm |-> PosInf,
                     minObs |-> PosInf, maxBackFocus_mm |-> NegInf]))

\* lines 272-284: the ranges widened by one trial whose candidate passes
derivedStep(t, acc, checked) ==
  IF checked.threw THEN [acc EXCEPT !.threw = TRUE]
  ELSE IF checked.isNull THEN acc
  ELSE IF ~checked.constraints.pass THEN acc
  ELSE [threw |-> FALSE,
        minFp |-> Min(acc.minFp, t.primaryFRatio),
        maxFp |-> Max(acc.maxFp, t.primaryFRatio),
        minFs |-> Min(acc.minFs, t.systemFRatio),
        maxFs |-> Max(acc.maxFs, t.systemFRatio)]

\* lines 268-270: the raw candidate checked against the constraints of s
checkedAgainst(s, raw) ==
  IF raw.threw \/ raw.isNull THEN raw ELSE checkConstraints(s, raw)

\* a slip: the trial is checked against the relaxed constraints
checkedTrialRelaxed(s, t, sd) ==
  checkedAgainst(relaxedSpecForInference(s),
                 trialCandidate(relaxedSpecForInference(s), t, sd))

\* lines 262-270: the candidate of one trial, generated under the relaxed
\* constraints and checked against those of s
checkedTrial(s, t, sd) ==
  checkedAgainst(s, trialCandidate(relaxedSpecForInference(s), t, sd))

\* lines 253-285; a newtonian trial has systemFRatio = Fp
RECURSIVE DerivedLimitsLoop(_, _, _, _, _)
DerivedLimitsLoop(s, trials, sd, i, acc) ==
  IF acc.threw \/ i > Len(trials) THEN acc
  ELSE DerivedLimitsLoop(s, trials, sd, i + 1,
                         derivedStep(trials[i], acc, checkedTrial(s, trials[i], sd)))

\* derivedLimits: undefined
Undefined == [defined |-> FALSE]

\* lines 287-305: the InputSpec returned is s with its derivedLimits field set
derivedLimitsOf(s, r) ==
  IF r.threw THEN [threw |-> TRUE, spec |-> s, derivedLimits |-> Undefined]
  ELSE IF ~isFinite(r.minFp) \/ ~isFinite(r.maxFp)
          \/ ~isFinite(r.minFs) \/ ~isFinite(r.maxFs)
  THEN [threw |-> FALSE, spec |-> s, derivedLimits |-> Undefined]
  ELSE [threw |-> FALSE, spec |-> s,
        derivedLimits |->
          [defined |-> TRUE,
           primaryFRatio |-> [min |-> r.minFp, max |-> r.maxFp],
           systemFRatio |-> [min |-> r.minFs, max |-> r.maxFs]]]

inferDerivedLimits(s, sd) ==
  derivedLimitsOf(s,
    DerivedLimitsLoop(s, TrialsOf(s), sd, 1,
                      [threw |-> FALSE, minFp |-> PosInf, maxFp |-> NegInf,
                       minFs |-> PosInf, maxFs |-> NegInf]))

\* lines 352-360: derivedSpec and warnings of the result
sweepInference(adj, derived) ==
  [threw |-> adj.threw \/ derived.threw,
   derivedSpec |-> [isNull |-> FALSE, spec |-> derived.spec,
                    derivedLimits |-> derived.derivedLimits],
   warnings |-> adj.warnings]

inferAfterAdjustments(adj, sd) ==
  sweepInference(adj, inferDerivedLimits(adj.spec, sd))

(***************************************************************************)
(* Inputs.                                                                 *)
(***************************************************************************)
RECURSIVE KindSeqs(_)
KindSeqs(n) ==
  IF n = 0 THEN {<<>>}
  ELSE LET shorter == KindSeqs(n - 1) IN
       shorter \cup
       {Append(q, k) : q \in {x \in shorter : Len(x) = n - 1},
                       k \in Kinds} 

NoRepeat(q) == \A i, j \in 1..Len(q) : i # j => q[i] # q[j]

DesignKindLists == {q \in KindSeqs(MaxKinds) : NoRepeat(q)}

Apertures ==
  {[aperture |-> 1000, apertureUnits |-> "mm"],
   [aperture |-> 120, apertureUnits |-> "inch"]}

ConstraintSpecs ==
  {[maxTubeLength |-> 20000, tubeLengthUnits |-> "mm",
    maxObstructionRatio |-> 4500,
    minBackFocus |-> 0, backFocusUnits |-> "mm",
    fullyIlluminatedFieldRadius |-> 0, fieldUnits |-> "mm"],
   [maxTubeLength |-> 400, tubeLengthUnits |-> "inch",
    maxObstructionRatio |-> 3500,
    minBackFocus |-> 0, backFocusUnits |-> "inch",
    fullyIlluminatedFieldRadius |-> 100, fieldUnits |-> "mm"],
   [maxTubeLength |-> 600, tubeLengthUnits |-> "inch",
    maxObstructionRatio |-> 5000,
    minBackFocus |-> 40, backFocusUnits |-> "inch",
    fullyIlluminatedFieldRadius |-> 5, fieldUnits |-> "inch"],
   [maxTubeLength |-> 3000, tubeLengthUnits |-> "mm",
    maxObstructionRatio |-> 4000,
    minBackFocus |-> 0, backFocusUnits |-> "inch",
    fullyIlluminatedFieldRadius |-> 0, fieldUnits |-> "mm"],
   [maxTubeLength |-> 100, tubeLengthUnits |-> "mm",
    maxObstructionRatio |-> 2000,
    minBackFocus |-> 1000, backFocusUnits |-> "mm",
    fullyIlluminatedFieldRadius |-> 0, fieldUnits |-> "mm"]}

SweepSpecs ==
  {[primaryFRatioMin |-> 40, primaryFRatioMax |-> 50, primaryFRatioStep |-> 5,
    systemFRatioMin |-> 80, systemFRatioMax |-> 120, systemFRatioStep |-> 40,
    target |-> 100],
   [primaryFRatioMin |-> 50, primaryFRatioMax |-> 40, primaryFRatioStep |-> 5,
    systemFRatioMin |-> 80, systemFRatioMax |-> 120, systemFRatioStep |-> 40,
    target |-> 100],
   [primaryFRatioMin |-> 40, primaryFRatioMax |-> 50, primaryFRatioStep |-> 0,
    systemFRatioMin |-> 80, systemFRatioMax |-> 120, systemFRatioStep |-> 40,
    target |-> 100],
   [primaryFRatioMin |-> 40, primaryFRatioMax |-> 40, primaryFRatioStep |-> 5,
    systemFRatioMin |-> 40, systemFRatioMax |-> 80, systemFRatioStep |-> 40,
    target |-> 100],
   [primaryFRatioMin |-> 20, primaryFRatioMax |-> 40, primaryFRatioStep |-> 20,
    systemFRatioMin |-> 0, systemFRatioMax |-> 0, systemFRatioStep |-> 0,
    target |-> 100],
   [primaryFRatioMin |-> 40, primaryFRatioMax |-> 45, primaryFRatioStep |-> 5,
    systemFRatioMin |-> 120, systemFRatioMax |-> 80, systemFRatioStep |-> 10,
    target |-> 0]}

WeightSpecs ==
  {[usableLight |-> 10, aberration |-> 10, obstruction |-> 10],
   [usableLight |-> 0, aberration |-> 0, obstruction |-> 0],
   [usableLight |-> 10, aberration |-> 0, obstruction |-> 5]}

TopNs == {0 - 1, 25} \cup (0..MaxTopN)

\* no simulation is running
NoTrace == [pc |-> "idle"]

NoCall == [fn |-> "none", aperture |-> 0, primaryFRatio |-> 0,
           systemFRatio |-> 0, minBackFocus |-> 0, out |-> Null]

Init ==
  /\ \E a \in Apertures, ks \in DesignKindLists, c \in ConstraintSpecs,
        sw \in SweepSpecs, w \in WeightSpecs :
       spec = [aperture |-> a.aperture,
               apertureUnits |-> a.apertureUnits,
               targetSystemFRatio |-> sw.target,
               designKinds |-> ks,
               constraints |-> c,
               coatings |-> [reflectivityPerMirror |-> 0,
                             correctorTransmission |-> 0],
               sweep |-> [primaryFRatioMin |-> sw.primaryFRatioMin,
                          primaryFRatioMax |-> sw.primaryFRatioMax,
                          primaryFRatioStep |-> sw.primaryFRatioStep,
                          systemFRatioMin |-> sw.systemFRatioMin,
                          systemFRatioMax |-> sw.systemFRatioMax,
                          systemFRatioStep |-> sw.systemFRatioStep],
               weights |-> w]
  /\ seed \in 0..MaxSeed
  /\ topN = 25
  /\ pc = "start"
  /\ fpValues = <<>>
  /\ fsValues = <<>>
  /\ ti = 1
  /\ candidates = <<>>
  /\ result = NoResult
  /\ scoreBounds = NoBounds
  /\ call = NoCall
  /\ console = 0
  /\ trace = NoTrace

(***************************************************************************)
(* runSweep(spec, topN)                                                    *)
(***************************************************************************)
\* lines 311-328: the two ranges and the fallback
BeginSweep ==
  /\ pc = "start"
  /\ spec.designKinds # <<>>
  /\ LET rawFsValues == enumerateRange(spec.sweep.systemFRatioMin,
                                       spec.sweep.systemFRatioMax,
                                       spec.sweep.systemFRatioStep)
         fsFallback == IF spec.targetSystemFRatio > 0
                       THEN <<spec.targetSystemFRatio>> ELSE <<>>
     IN  /\ fpValues' = enumerateRange(spec.sweep.primaryFRatioMin,
                                       spec.sweep.primaryFRatioMax,
                                       spec.sweep.primaryFRatioStep)
         /\ fsValues' = IF Len(rawFsValues) > 0 THEN rawFsValues ELSE fsFallback
  /\ pc' = "loop"
  /\ UNCHANGED <<spec, topN, seed, ti, candidates, result, scoreBounds,
    call, console, trace>>

\* lines 330-348: what the loop does with the candidate raw that the
\* generator of kind returned
TrialOutcome(kind, raw) ==
  IF raw.threw
  THEN /\ pc' = "threw"
       /\ UNCHANGED <<ti, candidates, console, trace>>
  ELSE /\ pc' = pc
       /\ ti' = ti + 1
       /\ console' = console
            + consoleWrites(kind, relaxedSpecForInference(spec), raw)
       /\ candidates' = IF raw.isNull THEN candidates
                        ELSE Append(candidates, checkConstraints(spec, raw))

\* lines 330-348: one generator call of the loop nest
Trial ==
  /\ pc = "loop"
  /\ ti <= Len(Trials)
  /\ TrialOutcome(Trials[ti].kind,
                  generatorFor(Trials[ti].kind, relaxedSpecForInference(spec),
                               [primaryFRatio |-> Trials[ti].primaryFRatio,
                                systemFRatio |-> Trials[ti].systemFRatio], seed))
  /\ UNCHANGED <<spec, topN, seed, fpValues, fsValues, result, scoreBounds, call, trace>>

\* lines 350-395: filter, adjustments and derived limits, score, sort,
\* winners, top.  Every generator call of the two inference passes is handed
\* relaxedSpecForInference(...), whose minBackFocus is 0, so they write
\* nothing to the console.
RankOutcome(r, inferred) ==
  IF inferred.threw
  THEN /\ pc' = "threw"
       /\ UNCHANGED <<result, scoreBounds, trace>>
  ELSE /\ pc' = "done"
       /\ result' =
            [candidates |-> r.candidates, ranked |-> r.ranked,
             bestOverall |-> r.bestOverall,
             bestByKind |-> r.bestByKind, top |-> r.top,
             derivedSpec |-> inferred.derivedSpec,
             warnings |-> inferred.warnings]
       /\ scoreBounds' = r.bounds

Rank ==
  /\ pc = "loop"
  /\ ti > Len(Trials)
  /\ \E n \in TopNs :
       /\ topN' = n
       /\ RankOutcome(rankCandidates(spec, candidates, n),
                      inferAfterAdjustments(
                        inferConstraintAdjustments(spec, seed), seed))
  /\ UNCHANGED <<spec, seed, fpValues, fsValues, ti, candidates, call, console,
                 trace>>

\* inferDerivedLimits is exported: the caller asks it about the spec that it
\* has just swept
CallInferDerivedLimits ==
  /\ pc \in {"done", "threw"}
  /\ call' = [fn |-> "inferDerivedLimits", sweepThrew |-> pc = "threw",
              out |-> inferDerivedLimits(spec, seed)]
  /\ pc' = "inferred"
  /\ UNCHANGED <<spec, topN, seed, fpValues, fsValues, ti, candidates, result,
               scoreBounds, console, trace>>

(***************************************************************************)
(* Direct calls: each generator and twoMirrorLayout are callable outside a *)
(* sweep, with the caller's spec and any numbers.  No generator reads      *)
(* designKinds, so direct calls are explored from the specs whose          *)
(* designKinds is empty.                                                   *)
(***************************************************************************)
DirectApertures == {0, 0 - 1000, NaN, PosInf}
DirectFRatios == {40, 80, 0, 0 - 40, NaN, PosInf}
\* backfocus demands that put the secondary on the primary (800 mm with a
\* 100 mm aperture at f/8) and behind it
DirectBackFocus == {8000, 8400}
DirectCtxs ==
  {NoCtx,
   [present |-> TRUE, imageQualityEmpty |-> FALSE],
   [present |-> TRUE, imageQualityEmpty |-> TRUE]}

\* the call record and the console after a generator returned out
GeneratorReturned(kind, s, params, out) ==
  /\ call' = [fn |-> kind, aperture |-> s.aperture,
              primaryFRatio |-> params.primaryFRatio,
              systemFRatio |-> params.systemFRatio,
              minBackFocus |-> s.constraints.minBackFocus,
              out |-> out]
  /\ console' = console + consoleWrites(kind, s, out)

generatorCall(kind, s, params, ctx, sd) ==
  CASE kind = "newtonian" -> newtonian(s, params, sd)
    [] kind = "cassegrain" -> cassegrain(s, params, sd)
    [] kind = "sct" -> sct(s, params)
    [] kind = "rc" -> rc(s, params, ctx, sd)

CallGenerator ==
  /\ pc = "start"
  /\ spec.designKinds = <<>>
  /\ \E kind \in Kinds, ap \in DirectApertures \cup {spec.aperture},
        Fp \in DirectFRatios, Fs \in DirectFRatios, ctx \in DirectCtxs :
       /\ kind # "rc" => ctx = NoCtx
       /\ GeneratorReturned(kind, [spec EXCEPT !.aperture = ap],
                          [primaryFRatio |-> Fp, systemFRatio |-> Fs],
                          generatorCall(kind, [spec EXCEPT !.aperture = ap],
                                        [primaryFRatio |-> Fp,
                                         systemFRatio |-> Fs], ctx, seed))
  /\ pc' = "called"
  /\ UNCHANGED <<spec, topN, seed, fpValues, fsValues, ti, candidates, result,
               scoreBounds, trace>>

CallTwoMirrorLayout ==
  /\ pc = "start"
  /\ spec.designKinds = <<>>
  /\ \E D_mm \in DirectApertures \cup {toMm(spec.aperture, spec.apertureUnits)},
        Fp \in DirectFRatios, Fs \in DirectFRatios,
        bf \in DirectBackFocus \cup {spec.constraints.minBackFocus} :
       LET s == [spec EXCEPT !.constraints.minBackFocus = bf] IN
       call' = [fn |-> "twoMirrorLayout", aperture |-> D_mm,
                primaryFRatio |-> Fp, systemFRatio |-> Fs,
                minBackFocus |-> bf,
                out |-> twoMirrorLayout(s, D_mm, Fp, Fs)]
  /\ pc' = "called"
  /\ UNCHANGED <<spec, topN, seed, fpValues, fsValues, ti, candidates, result,
               scoreBounds, console, trace>>

\* scoreCandidate is exported: it can be handed any candidate and bounds
DirectWfes == {NaN, PosInf, NegInf, 0, 500, 2000}
DirectBounds ==
  {[minWfeRms |-> 0, maxWfeRms |-> 1000, wfeScale |-> 1],
   [minWfeRms |-> 500, maxWfeRms |-> 500, wfeScale |-> 1],
   [minWfeRms |-> NaN, maxWfeRms |-> PosInf, wfeScale |-> 1]}

\* usableLightEfficiency and obstructionRatio of the candidate handed over:
\* the generator's own, or numbers that no generator returns
DirectRatios ==
  {[own |-> TRUE],
   [own |-> FALSE, usableLightEfficiency |-> NaN, obstructionRatio |-> NaN],
   [own |-> FALSE, usableLightEfficiency |-> PosInf, obstructionRatio |-> NegInf],
   [own |-> FALSE, usableLightEfficiency |-> 0 - 500, obstructionRatio |-> 15000],
   [own |-> FALSE, usableLightEfficiency |-> 15000, obstructionRatio |-> 0 - 500]}

withRatios(made, r) ==
  IF r.own THEN made
  ELSE [made EXCEPT !.throughput.usableLightEfficiency = r.usableLightEfficiency,
                    !.geometry.obstructionRatio = r.obstructionRatio]

CallScoreCandidate ==
  /\ pc = "start"
  /\ spec.designKinds = <<>>
  /\ \E w \in DirectWfes, b \in DirectBounds, r \in DirectRatios :
       LET made == newtonian(spec, [primaryFRatio |-> 40, systemFRatio |-> 40],
                             seed)
           candidate == [withRatios(made, r)
                           EXCEPT !.aberrations.wfeRms_waves_edge = w]
       IN  call' = [fn |-> "scoreCandidate", candidate |-> candidate,
                    bounds |-> b,
                    out |-> scoreCandidate(candidate, b, spec.weights)]
  /\ pc' = "called"
  /\ UNCHANGED <<spec, topN, seed, fpValues, fsValues, ti, candidates, result,
               scoreBounds, console, trace>>

Next ==
  \/ BeginSweep \/ Trial \/ Rank
  \/ CallGenerator \/ CallTwoMirrorLayout \/ CallScoreCandidate
  \/ CallInferDerivedLimits

Spec == Init /\ [][Next]_vars

(***************************************************************************)
(* Properties of the SweepResult.                                          *)
(***************************************************************************)
Done == pc = "done"

Id(c) == <<c.kind, c.inputs.primaryFRatio, c.inputs.systemFRatio>>

Ids(cs) == {Id(cs[i]) : i \in 1..Len(cs)}

\* the place of a ranked candidate in the list of generated candidates
CandidateIndex(c) == CHOOSE i \in 1..Len(candidates) : Id(candidates[i]) = Id(c)

\* the conversion of a user-facing length, written out independently of toMm
InMillimetres(value, units) ==
  IF units = "inch" THEN (value * 254) \div 10 ELSE value

WinnerIds ==
  (IF result.bestOverall.isNull THEN {} ELSE {Id(result.bestOverall)})
  \cup {Id(result.bestByKind[k]) : k \in {x \in Kinds : ~result.bestByKind[x].isNull}}

\* C1: in every SweepResult returned by runSweep, ranked is sorted by
\* score.total in descending order: each element's total is at least the
\* total of the next one.
C1_RankedDescending ==
  Done =>
    \A i \in 1..(Len(result.ranked) - 1) :
      result.ranked[i].score.total >= result.ranked[i + 1].score.total

\* the sort moved a later candidate with a strictly larger total forward
C1_Witness ==
  /\ Done
  /\ \E i \in 1..(Len(result.ranked) - 1) :
       /\ result.ranked[i].score.total > result.ranked[i + 1].score.total
       /\ CandidateIndex(result.ranked[i]) > CandidateIndex(result.ranked[i + 1])

\* C2: ranked holds exactly the generated candidates that pass, each once and
\* scored; every generated candidate is in candidates; a failing candidate is
\* in candidates and in none of ranked, top, bestOverall, bestByKind.
C2_RankedIsThePassingSet ==
  Done =>
    /\ result.candidates = candidates
    /\ \A i \in 1..Len(Trials) :
         LET raw == generatorFor(Trials[i].kind, relaxedSpecForInference(spec),
                                 [primaryFRatio |-> Trials[i].primaryFRatio,
                                  systemFRatio |-> Trials[i].systemFRatio], seed)
         IN  ~raw.isNull => Id(raw) \in Ids(result.candidates)
    /\ Len(result.ranked)
         = Cardinality({i \in 1..Len(candidates) : candidates[i].constraints.pass})
    /\ \A i \in 1..Len(candidates) :
         IF candidates[i].constraints.pass
         THEN Cardinality({j \in 1..Len(result.ranked) :
                [result.ranked[j] EXCEPT !.score = ZeroScore] = candidates[i]}) = 1
         ELSE /\ Id(candidates[i]) \notin Ids(result.ranked)
              /\ Id(candidates[i]) \notin Ids(result.top)
              /\ Id(candidates[i]) \notin WinnerIds
    /\ \A j \in 1..Len(result.ranked) :
         LET r == result.ranked[j] IN
         /\ r.constraints.pass
         /\ r.score.total = spec.weights.usableLight * r.score.terms.usableLight
                            + spec.weights.aberration * r.score.terms.aberration
                            + spec.weights.obstruction * r.score.terms.obstruction

\* a sweep with passing and failing candidates
C2_Witness ==
  /\ Done
  /\ Len(result.ranked) >= 2
  /\ Len(result.candidates) >= Len(result.ranked) + 2
  /\ \E j \in 1..Len(result.ranked) : result.ranked[j].score.total > 0

\* C3: every candidate of the result that passes satisfies the caller's
\* constraints when they are re-checked in millimetres: tube length at most
\* the maximum, obstruction ratio at most the maximum, backfocus at least the
\* minimum.
C3_PassingMeetsConstraints ==
  Done =>
    \A i \in 1..Len(result.candidates) :
      LET c == result.candidates[i] IN
      c.constraints.pass =>
        /\ c.geometry.tubeLength_mm
             <= InMillimetres(spec.constraints.maxTubeLength,
                              spec.constraints.tubeLengthUnits)
        /\ c.geometry.obstructionRatio <= spec.constraints.maxObstructionRatio
        /\ c.geometry.backFocus_mm
             >= InMillimetres(spec.constraints.minBackFocus,
                              spec.constraints.backFocusUnits)

\* a candidate passes a limit given in inches that it would fail if the
\* number were read as millimetres, and another candidate fails
C3_Witness ==
  /\ Done
  /\ spec.constraints.tubeLengthUnits = "inch"
  /\ \E i \in 1..Len(result.candidates) :
       /\ result.candidates[i].constraints.pass
       /\ result.candidates[i].geometry.tubeLength_mm > spec.constraints.maxTubeLength
  /\ \E i \in 1..Len(result.candidates) : ~result.candidates[i].constraints.pass

PassIffNoReasons(c) == c.constraints.pass <=> (Len(c.constraints.reasons) = 0)

GeneratorCalled ==
  pc = "called" /\ call.fn \in Kinds /\ ~call.out.isNull /\ ~call.out.threw

\* C4: for every candidate, from a direct generator call or in a sweep,
\* constraints.pass is true exactly when constraints.reasons is empty.
C4_PassIffNoReasons ==
  /\ \A i \in 1..Len(candidates) : PassIffNoReasons(candidates[i])
  /\ \A i \in 1..Len(result.candidates) : PassIffNoReasons(result.candidates[i])
  /\ \A i \in 1..Len(result.ranked) : PassIffNoReasons(result.ranked[i])
  /\ GeneratorCalled => PassIffNoReasons(call.out)

\* a sweep candidate rejected for its backfocus alone
C4_Witness ==
  /\ Done
  /\ \E i \in 1..Len(result.candidates) :
       result.candidates[i].constraints.reasons = <<"backfocus_below_min">>
  /\ \E i \in 1..Len(result.candidates) : result.candidates[i].constraints.pass

\* a generator called directly returns a candidate with reasons
C4_WitnessDirect ==
  /\ GeneratorCalled
  /\ Len(call.out.constraints.reasons) >= 2

\* C5: every Cassegrain, SCT or RC candidate of a sweep has backFocus_mm equal
\* to the caller's minBackFocus in millimetres (the value the spacing is
\* solved for).
C5_BackFocusIsCallersMinimum ==
  Done =>
    \A i \in 1..Len(result.candidates) :
      LET c == result.candidates[i] IN
      c.kind \in {"cassegrain", "sct", "rc"} =>
        c.geometry.backFocus_mm
          = InMillimetres(spec.constraints.minBackFocus,
                          spec.constraints.backFocusUnits)

\* no trial of the sweep has a candidate that passes the caller's
\* constraints, not even an rc trial evaluated with a simulator at hand
NoTrialPasses ==
  \A i \in 1..Len(Trials) :
    LET params == [primaryFRatio |-> Trials[i].primaryFRatio,
                   systemFRatio |-> Trials[i].systemFRatio]
        raw == IF Trials[i].kind = "rc"
               THEN rc(relaxedSpecForInference(spec), params,
                       [present |-> TRUE, imageQualityEmpty |-> FALSE], seed)
               ELSE generatorFor(Trials[i].kind, relaxedSpecForInference(spec),
                                 params, seed)
    IN  raw.isNull \/ ~checkConstraints(spec, raw).constraints.pass

EmptyRanking ==
  /\ result.ranked = <<>>
  /\ result.bestOverall = Null
  /\ result.top = <<>>
  /\ \A k \in Kinds : result.bestByKind[k] = Null

\* C6: when no candidate passes, runSweep does not throw and returns the
\* empty ranking: ranked and top empty, bestOverall and every bestByKind
\* entry null.
C6_EmptyResultNotAnError ==
  (pc \in {"done", "threw"} /\ NoTrialPasses) => (Done /\ EmptyRanking)

\* C7: bestOverall has the largest total of ranked; bestByKind[k] is of kind
\* k with the largest total among the ranked candidates of kind k, and is
\* null exactly when ranked has no candidate of kind k.
C7_Winners ==
  (Done /\ result.ranked # <<>>) =>
    /\ \E j \in 1..Len(result.ranked) : result.bestOverall = result.ranked[j]
    /\ \A j \in 1..Len(result.ranked) :
         result.bestOverall.score.total >= result.ranked[j].score.total
    /\ \A k \in Kinds :
         LET ofKind == {j \in 1..Len(result.ranked) : result.ranked[j].kind = k} IN
         IF ofKind = {}
         THEN result.bestByKind[k] = Null
         ELSE /\ \E j \in ofKind : result.bestByKind[k] = result.ranked[j]
              /\ \A j \in ofKind :
                   result.bestByKind[k].score.total >= result.ranked[j].score.total

\* two kinds ranked, one of them with two candidates of different totals
C7_Witness ==
  /\ Done
  /\ \E i, j \in 1..Len(result.ranked) :
       /\ result.ranked[i].kind = result.ranked[j].kind
       /\ result.ranked[i].score.total > result.ranked[j].score.total
  /\ \E i, j \in 1..Len(result.ranked) : result.ranked[i].kind # result.ranked[j].kind
  /\ \E k \in Kinds : result.bestByKind[k] = Null

\* C8: top is the prefix of ranked of length min(max(topN, 0), Len(ranked)).
C8_TopIsPrefix ==
  Done =>
    /\ Len(result.top) = Min(Max(topN, 0), Len(result.ranked))
    /\ (topN >= 0 => Len(result.top) = Min(topN, Len(result.ranked)))
    /\ (topN < 0 => result.top = <<>>)
    /\ \A i \in 1..Len(result.top) : result.top[i] = result.ranked[i]

\* a negative topN over a ranking of two or more
C8_Witness == Done /\ topN < 0 /\ Len(result.ranked) >= 2

\* a topN that truncates the ranking
C8_WitnessTruncated == Done /\ topN >= 1 /\ Len(result.ranked) > topN

\* the place of a candidate in the enumeration: kinds in designKinds order,
\* then primaryFRatio ascending, then systemFRatio ascending
TrialIndex(c) ==
  CHOOSE i \in 1..Len(Trials) :
    <<Trials[i].kind, Trials[i].primaryFRatio, Trials[i].systemFRatio>> = Id(c)

KindPosition(k) == CHOOSE i \in 1..Len(spec.designKinds) : spec.designKinds[i] = k

EnumeratedBefore(a, b) ==
  \/ KindPosition(a.kind) < KindPosition(b.kind)
  \/ /\ a.kind = b.kind
     /\ \/ a.inputs.primaryFRatio < b.inputs.primaryFRatio
        \/ /\ a.inputs.primaryFRatio = b.inputs.primaryFRatio
           /\ a.inputs.systemFRatio < b.inputs.systemFRatio

\* C9: candidates of equal total keep their enumeration order in ranked.
C9_TiesKeepEnumerationOrder ==
  Done =>
    \A i, j \in 1..Len(result.ranked) :
      (i < j /\ result.ranked[i].score.total = result.ranked[j].score.total)
        => EnumeratedBefore(result.ranked[i], result.ranked[j])

\* a tie between two candidates that ends up below a larger total
C9_Witness ==
  /\ Done
  /\ \E i, j \in 1..Len(result.ranked) :
       /\ i < j
       /\ result.ranked[i].score.total = result.ranked[j].score.total
  /\ \E i \in 1..(Len(result.ranked) - 1) :
       result.ranked[i].score.total > result.ranked[i + 1].score.total

\* the inputs C10 names: equal or inverted focal ratios, a non-positive
\* aperture or primary focal ratio, or a non-finite number
DegenerateInputs(D, Fp, Fs) ==
  \/ ~isFinite(D) \/ ~isFinite(Fp) \/ ~isFinite(Fs)
  \/ D <= 0
  \/ Fp <= 0
  \/ Fs <= Fp

\* C10: cassegrain, sct, rc and twoMirrorLayout return null when
\* systemFRatio <= primaryFRatio, when the aperture or primaryFRatio is not
\* positive, and when any of the three is not finite.
C10_DegenerateInputsGiveNull ==
  (/\ pc = "called"
   /\ call.fn \in {"cassegrain", "sct", "rc", "twoMirrorLayout"}
   /\ DegenerateInputs(call.aperture, call.primaryFRatio, call.systemFRatio))
    => call.out = Null

\* the boundary of the spec: equal focal ratios, a valid aperture
C10_Witness ==
  /\ pc = "called"
  /\ call.fn = "sct"
  /\ call.aperture > 0
  /\ isFinite(call.aperture)
  /\ call.primaryFRatio = 40
  /\ call.systemFRatio = 40
  /\ call.out = Null

\* the generators do return candidates on valid inputs
C10_WitnessValid ==
  /\ GeneratorCalled
  /\ call.fn = "rc"

(***************************************************************************)
(* Properties of the two-mirror layout.                                    *)
(***************************************************************************)
LayoutCalled == pc = "called" /\ call.fn = "twoMirrorLayout"

TwoMirrorKinds == {"cassegrain", "sct", "rc"}

\* the backfocus a direct call of twoMirrorLayout was made with, in
\* millimetres, written out independently of toMm
CalledBackFocus_mm ==
  InMillimetres(call.minBackFocus, spec.constraints.backFocusUnits)

\* the layout behind a two-mirror candidate of the sweep
LayoutOf(c) ==
  twoMirrorLayout(relaxedSpecForInference(spec), c.inputs.aperture_mm,
                  c.inputs.primaryFRatio, c.inputs.systemFRatio)

\* C11: a layout returned by twoMirrorLayout has its spacing strictly between
\* 0 and fPrimary_mm and a strictly positive secondary diameter
\* 2 * (coneRadius + chiefRayHeight); a demanded backfocus that reaches the
\* system focal length (spacing zero or negative) gives null; and no
\* two-mirror candidate carries a non-positive secondary diameter or stems
\* from a layout with a spacing outside (0, fPrimary_mm).
C11_SpacingAndSecondary ==
  /\ (LayoutCalled /\ ~call.out.isNull) =>
       /\ call.out.dPrimaryToSecondary_mm > 0
       /\ call.out.dPrimaryToSecondary_mm < call.out.fPrimary_mm
       /\ call.out.secondaryDiameter_mm > 0
       /\ call.out.secondaryDiameter_mm
            = 2 * (call.out.coneRadiusAtSecondary_mm
                   + call.out.chiefRayHeightAtSecondary_mm)
  /\ (/\ LayoutCalled
      /\ isFinite(call.aperture) /\ isFinite(call.systemFRatio)
      /\ CalledBackFocus_mm >= (call.systemFRatio * call.aperture) \div 10)
       => call.out = Null
  /\ (GeneratorCalled /\ call.fn \in TwoMirrorKinds)
       => call.out.geometry.secondaryDiameter_mm > 0
  /\ \A i \in 1..Len(candidates) :
       LET c == candidates[i] IN
       c.kind \in TwoMirrorKinds =>
         /\ c.geometry.secondaryDiameter_mm > 0
         /\ ~LayoutOf(c).isNull
         /\ LayoutOf(c).dPrimaryToSecondary_mm > 0
         /\ LayoutOf(c).dPrimaryToSecondary_mm < c.inputs.primaryFocalLength_mm

\* valid focal ratios and aperture, and a backfocus that puts the secondary
\* exactly on the primary: the solved spacing is 0 and the layout is refused
C11_Witness ==
  /\ LayoutCalled
  /\ call.aperture > 0 /\ isFinite(call.aperture)
  /\ call.primaryFRatio = 40
  /\ call.systemFRatio = 80
  /\ CalledBackFocus_mm = (call.systemFRatio * call.aperture) \div 10
  /\ call.out = Null

\* a layout with a chief ray off the axis is returned
C11_WitnessLayout ==
  /\ LayoutCalled
  /\ ~call.out.isNull
  /\ call.out.chiefRayHeightAtSecondary_mm > 0
  /\ call.out.backFocus_mm > 0

(***************************************************************************)
(* runSweep as a function of the spec: the candidates pushed by the first  *)
(* n generator calls of the loop nest, and whether one of them threw.      *)
(***************************************************************************)
RECURSIVE SweepPrefix(_, _, _)
SweepPrefix(s, sd, n) ==
  IF n = 0 \/ TrialsOf(s) = <<>> THEN [threw |-> FALSE, candidates |-> <<>>]
  ELSE
    LET prev == SweepPrefix(s, sd, n - 1) IN
    IF prev.threw \/ n > Len(TrialsOf(s)) THEN prev
    ELSE
      LET t == TrialsOf(s)[n]
          raw == generatorFor(t.kind, relaxedSpecForInference(s),
                              [primaryFRatio |-> t.primaryFRatio,
                               systemFRatio |-> t.systemFRatio], sd)
      IN  IF raw.threw THEN [threw |-> TRUE, candidates |-> prev.candidates]
          ELSE IF raw.isNull THEN prev
          ELSE [threw |-> FALSE,
                candidates |-> Append(prev.candidates, checkConstraints(s, raw))]

\* the three constraint values of the specs under test
ConstraintValues ==
  {[maxTubeLength |-> c.maxTubeLength,
    maxObstructionRatio |-> c.maxObstructionRatio,
    minBackFocus |-> c.minBackFocus] : c \in ConstraintSpecs}

\* the spec s with other values of the three constraints, all else equal
WithConstraintValues(s, v) ==
  [s EXCEPT !.constraints.maxTubeLength = v.maxTubeLength,
            !.constraints.maxObstructionRatio = v.maxObstructionRatio,
            !.constraints.minBackFocus = v.minBackFocus]

WithoutConstraints(cs) ==
  [i \in 1..Len(cs) |->
     [cs[i] EXCEPT !.constraints = [pass |-> TRUE, reasons |-> <<>>]]]

\* generator calls made so far by the sweep in progress
CallsMade == IF pc = "threw" THEN ti ELSE ti - 1

\* C12: two sweeps whose specs differ only in the values of maxTubeLength,
\* maxObstructionRatio and minBackFocus generate candidates for the same
\* (kind, Fp, Fs) combinations with identical geometry, throughput and
\* aberration metrics: after the same number of generator calls their
\* candidates lists differ at most in the constraints fields.
C12_GenerationIgnoresConstraints ==
  pc \in {"loop", "done", "threw"} =>
    /\ SweepPrefix(spec, seed, CallsMade)
         = [threw |-> pc = "threw", candidates |-> candidates]
    /\ \A v \in ConstraintValues :
         LET other == SweepPrefix(WithConstraintValues(spec, v), seed, CallsMade)
         IN  /\ other.threw = (pc = "threw")
             /\ WithoutConstraints(other.candidates)
                  = WithoutConstraints(candidates)

\* a finished sweep with a two-mirror candidate that passes under one spec
\* and fails under the other
C12_Witness ==
  /\ Done
  /\ \E v \in ConstraintValues :
       LET other == SweepPrefix(WithConstraintValues(spec, v), seed, CallsMade)
       IN  \E i \in 1..Len(candidates) :
             /\ candidates[i].kind \in TwoMirrorKinds
             /\ candidates[i].constraints.pass
             /\ ~other.candidates[i].constraints.pass
             /\ v.minBackFocus # spec.constraints.minBackFocus

(***************************************************************************)
(* Properties of the scores.                                               *)
(***************************************************************************)
Wfe(c) == c.aberrations.wfeRms_waves_edge

\* the finite wavefront errors of the ranked (passing) candidates
RankedFiniteWfe ==
  {Wfe(result.ranked[j]) : j \in {k \in 1..Len(result.ranked) :
                                    isFinite(Wfe(result.ranked[k]))}}

WorstWfe == CHOOSE w \in RankedFiniteWfe : \A v \in RankedFiniteWfe : v <= w

BestWfe == CHOOSE w \in RankedFiniteWfe : \A v \in RankedFiniteWfe : w <= v

\* C13 as stated: in a finished sweep with a finite wavefront error among the
\* passing candidates, the passing candidate with the largest finite
\* wfeRms_waves_edge has aberration term 0 and the one with the smallest has
\* aberration term 1.
C13_WorstZeroBestOne ==
  (Done /\ RankedFiniteWfe # {}) =>
    \A j \in 1..Len(result.ranked) :
      LET c == result.ranked[j] IN
      /\ Wfe(c) = WorstWfe => c.score.terms.aberration = 0
      /\ Wfe(c) = BestWfe => c.score.terms.aberration = One

\* C13 amended: when the finite wavefront errors of the passing candidates
\* are not all equal, the candidates with the largest have aberration term 0
\* and those with the smallest have aberration term 1; when they are all
\* equal, every candidate with a finite wavefront error has aberration
\* term 1.
C13_WorstZeroBestOneWhenSpread ==
  (Done /\ RankedFiniteWfe # {}) =>
    \A j \in 1..Len(result.ranked) :
      LET c == result.ranked[j] IN
      IF WorstWfe > BestWfe
      THEN /\ Wfe(c) = WorstWfe => c.score.terms.aberration = 0
           /\ Wfe(c) = BestWfe => c.score.terms.aberration = One
      ELSE isFinite(Wfe(c)) => c.score.terms.aberration = One

\* three different finite wavefront errors in one ranking, the worst one
\* met before the best one
C13_Witness ==
  /\ Done
  /\ Cardinality(RankedFiniteWfe) >= 3
  /\ \E i, j \in 1..Len(result.candidates) :
       /\ i < j
       /\ result.candidates[i].constraints.pass
       /\ result.candidates[j].constraints.pass
       /\ Wfe(result.candidates[i]) = WorstWfe
       /\ Wfe(result.candidates[j]) = BestWfe

\* a ranking whose finite wavefront errors are all equal
C13_WitnessEqual ==
  /\ Done
  /\ Cardinality(RankedFiniteWfe) = 1
  /\ Len(result.ranked) >= 2

\* the finite wavefront errors of the generated candidates that pass
PassingFiniteWfe ==
  {Wfe(candidates[i]) : i \in {k \in 1..Len(candidates) :
                                 /\ candidates[k].constraints.pass
                                 /\ isFinite(Wfe(candidates[k]))}}

LeastOf(S) == CHOOSE w \in S : \A v \in S : w <= v

GreatestOf(S) == CHOOSE w \in S : \A v \in S : v <= w

Ranked == Done /\ result.ranked # <<>>

\* C14 as stated: the bounds computeScoreBounds returns are the minimum and
\* the maximum of the finite wfeRms_waves_edge values of the passing
\* candidates, and [0, 1] when there is no finite value; and the scores of
\* the ranked candidates are those of a ranking of the passing candidates
\* alone.
C14_BoundsAreMinAndMax ==
  Ranked =>
    /\ IF PassingFiniteWfe = {}
       THEN scoreBounds.minWfeRms = 0 /\ scoreBounds.maxWfeRms = 1000
       ELSE /\ scoreBounds.minWfeRms = LeastOf(PassingFiniteWfe)
            /\ scoreBounds.maxWfeRms = GreatestOf(PassingFiniteWfe)
    /\ result.ranked
         = rankCandidates(spec, SelectPassing(candidates), topN).ranked

\* C14 amended: minWfeRms is the minimum of the finite wfeRms_waves_edge
\* values of the passing candidates; maxWfeRms is their maximum when it
\* exceeds the minimum and the minimum plus one wave when all of them are
\* equal; the bounds are [0, 1] when there is no finite value; and the scores
\* of the ranked candidates are those of a ranking of the passing candidates
\* alone.
C14_BoundsFromPassingOnly ==
  Ranked =>
    /\ IF PassingFiniteWfe = {}
       THEN scoreBounds.minWfeRms = 0 /\ scoreBounds.maxWfeRms = 1000
       ELSE /\ scoreBounds.minWfeRms = LeastOf(PassingFiniteWfe)
            /\ scoreBounds.maxWfeRms
                 = IF GreatestOf(PassingFiniteWfe) > LeastOf(PassingFiniteWfe)
                   THEN GreatestOf(PassingFiniteWfe)
                   ELSE LeastOf(PassingFiniteWfe) + 1000
    /\ result.ranked
         = rankCandidates(spec, SelectPassing(candidates), topN).ranked

\* a failing candidate whose wavefront error lies outside the range of the
\* passing ones, which have two different finite values
C14_Witness ==
  /\ Ranked
  /\ Cardinality(PassingFiniteWfe) >= 2
  /\ \E i \in 1..Len(candidates) :
       /\ ~candidates[i].constraints.pass
       /\ isFinite(Wfe(candidates[i]))
       /\ \/ Wfe(candidates[i]) > GreatestOf(PassingFiniteWfe)
          \/ Wfe(candidates[i]) < LeastOf(PassingFiniteWfe)

\* a ranking without any finite wavefront error: the default bounds
C14_WitnessDefault ==
  /\ Ranked
  /\ PassingFiniteWfe = {}
  /\ \E i \in 1..Len(candidates) :
       ~candidates[i].constraints.pass /\ isFinite(Wfe(candidates[i]))

ScoreCalled == pc = "called" /\ call.fn = "scoreCandidate"

\* C15: a candidate whose wfeRms_waves_edge is NaN or infinite is scored, its
\* aberration term is 0, and no candidate of the same batch, finite or not,
\* has a smaller aberration term; the score is returned, never an exception.
C15_NonFiniteScoresWorst ==
  /\ Done =>
       \A j \in 1..Len(result.ranked) :
         ~isFinite(Wfe(result.ranked[j])) =>
           /\ result.ranked[j].score.terms.aberration = 0
           /\ \A k \in 1..Len(result.ranked) :
                result.ranked[j].score.terms.aberration
                  <= result.ranked[k].score.terms.aberration
  /\ (ScoreCalled /\ ~isFinite(Wfe(call.candidate))) =>
       /\ call.out.score.terms.aberration = 0
       /\ call.out.score.total
            = spec.weights.usableLight * call.out.score.terms.usableLight
              + spec.weights.obstruction * call.out.score.terms.obstruction
       /\ [call.out EXCEPT !.score = ZeroScore] = call.candidate
  /\ (ScoreCalled /\ isFinite(Wfe(call.candidate))) =>
       call.out.score.terms.aberration >= 0

\* a ranking where a candidate without a wavefront error stands next to one
\* with a finite error and a positive aberration term
C15_Witness ==
  /\ Done
  /\ \E j, k \in 1..Len(result.ranked) :
       /\ ~isFinite(Wfe(result.ranked[j]))
       /\ isFinite(Wfe(result.ranked[k]))
       /\ result.ranked[k].score.terms.aberration > 0
       /\ result.ranked[j].kind # "sct"

\* an infinite wavefront error handed to scoreCandidate with weight on it
C15_WitnessInfinite ==
  /\ ScoreCalled
  /\ Wfe(call.candidate) = PosInf
  /\ ~isFinite(call.bounds.minWfeRms)
  /\ spec.weights.aberration > 0
  /\ call.out.score.total > 0

(***************************************************************************)
(* Properties of the derived limits.                                       *)
(***************************************************************************)
Inferred == pc = "inferred" /\ ~call.sweepThrew

PassingFp ==
  {result.candidates[i].inputs.primaryFRatio :
     i \in {k \in 1..Len(result.candidates) : result.candidates[k].constraints.pass}}

PassingFs ==
  {result.candidates[i].inputs.systemFRatio :
     i \in {k \in 1..Len(result.candidates) : result.candidates[k].constraints.pass}}

\* C16: inferDerivedLimits(spec) agrees with runSweep(spec, N): derivedLimits
\* is defined exactly when ranked is not empty, and then its primaryFRatio and
\* systemFRatio min and max are the least and greatest Fp and Fs over the
\* trials whose candidates pass the caller's constraints in the sweep (a
\* Newtonian trial counting with Fs = Fp); where the sweep threw, so does
\* inferDerivedLimits.
C16_DerivedLimitsMatchSweep ==
  /\ Inferred =>
       /\ ~call.out.threw
       /\ call.out.spec = spec
       /\ call.out.derivedLimits.defined <=> (result.ranked # <<>>)
       /\ call.out.derivedLimits.defined =>
            /\ call.out.derivedLimits.primaryFRatio.min = LeastOf(PassingFp)
            /\ call.out.derivedLimits.primaryFRatio.max = GreatestOf(PassingFp)
            /\ call.out.derivedLimits.systemFRatio.min = LeastOf(PassingFs)
            /\ call.out.derivedLimits.systemFRatio.max = GreatestOf(PassingFs)
  /\ (pc = "inferred" /\ call.sweepThrew) => call.out.threw

\* limits that are narrower than the sweep's ranges because some trials fail
\* the caller's constraints
C16_Witness ==
  /\ Inferred
  /\ call.out.derivedLimits.defined
  /\ \/ call.out.derivedLimits.primaryFRatio.min > spec.sweep.primaryFRatioMin
     \/ call.out.derivedLimits.primaryFRatio.max < spec.sweep.primaryFRatioMax
  /\ call.out.derivedLimits.systemFRatio.max
       > call.out.derivedLimits.systemFRatio.min
  /\ \E i \in 1..Len(result.candidates) : ~result.candidates[i].constraints.pass

\* candidates were generated, none passes, and the limits are undefined
C16_WitnessUndefined ==
  /\ Inferred
  /\ ~call.out.derivedLimits.defined
  /\ Len(result.candidates) >= 2

(***************************************************************************)
(* src/optics/raytrace: the ray-trace simulator.                           *)
(*                                                                         *)
(* Lengths are tenths of a millimetre.  Every surface of the plans below   *)
(* is centred on the optical axis with its normal along z: a plane with    *)
(* nHat = (0, 0, 1), or a conic whose sag is below a tenth of a millimetre *)
(* over its aperture, so that its intersection is the one with its vertex  *)
(* plane.  A ray direction normalize(sin a, 0, cos a) is kept as the       *)
(* tangent of a (tx, in TanDen-ths) and the sign of its z component (dz);  *)
(* reflecting about a normal along z flips dz and keeps tx.  The distance  *)
(* t of a hit is kept as the distance travelled along z, which orders the  *)
(* hits of one ray as t does (t is that distance over cos a).              *)
(***************************************************************************)
MaxBounces == 3
MaxSteps == 3

TanDen == 5

Vec3(x, y, z) == [x |-> x, y |-> y, z |-> z]

\* trace.ts, lines 101-104 (only the outer radius is compared)
withinApertureConic(surface, p) ==
  LET r2 == p.x * p.x + p.y * p.y
  IN  r2 <= surface.apertureRadius * surface.apertureRadius

\* trace.ts, lines 106-114
withinAperturePlane(surface, p) ==
  LET dx == p.x - surface.p0.x
      dy == p.y - surface.p0.y
      dz == p.z - surface.p0.z
      dd == dx * dx + dy * dy + dz * dz
      proj == dz
      r2 == Max(0, dd - proj * proj)
  IN  r2 <= surface.apertureRadius * surface.apertureRadius

\* the point of a ray after travelling t along z
PointAt(ray, t) ==
  Vec3(ray.o.x + (ray.d.tx * t) \div TanDen, ray.o.y, ray.o.z + ray.d.dz * t)

\* trace.ts, lines 121-164: a surface behind the origin converges to t < 0
intersectConic(surface, ray) ==
  LET t == (surface.z0 - ray.o.z) * ray.d.dz
      p == PointAt(ray, t)
      hit == Vec3(p.x, p.y, surface.z0)
  IN  IF t < 0 THEN Null
      ELSE IF ~withinApertureConic(surface, hit) THEN Null
      ELSE [isNull |-> FALSE, t |-> t, p |-> hit]

\* trace.ts, lines 166-181
intersectPlane(surface, ray) ==
  LET t == (surface.p0.z - ray.o.z) * ray.d.dz
      p == PointAt(ray, t)
  IN  IF t < 0 THEN Null
      ELSE IF ~withinAperturePlane(surface, p) THEN Null
      ELSE [isNull |-> FALSE, t |-> t, p |-> p]

\* trace.ts, lines 116-119, about a normal along z
reflect(d) == [tx |-> d.tx, dz |-> 0 - d.dz]

\* simulator.ts, lines 33-42
toConicSurface(s) ==
  [z0 |-> s.z0_mm,
   apertureRadius |-> s.aperture.radius_mm,
   innerApertureRadius |-> s.aperture.innerRadius_mm]

\* simulator.ts, lines 44-51
toPlaneSurface(s) ==
  [p0 |-> s.p0_mm,
   apertureRadius |-> s.aperture.radius_mm,
   innerApertureRadius |-> s.aperture.innerRadius_mm]

\* simulator.ts, lines 73-89: one element of out
toRuntimeSurface(s) ==
  IF s.kind = "conic"
  THEN [id |-> s.id, kind |-> "conic", material |-> s.material,
        s |-> toConicSurface(s)]
  ELSE [id |-> s.id, kind |-> "plane", material |-> s.material,
        s |-> toPlaneSurface(s)]

\* simulator.ts, lines 67-99
buildRuntimeSurfaces(plan, sensorPlane) ==
  Append([i \in 1..Len(plan.surfaces) |-> toRuntimeSurface(plan.surfaces[i])],
         [id |-> plan.sensor.id, kind |-> "plane",
          material |-> sensorPlane.material,
          s |-> toPlaneSurface(sensorPlane)])

\* simulator.ts, lines 101-108
intersectRuntimeSurface(rs, ray) ==
  IF rs.kind = "conic" THEN intersectConic(rs.s, ray)
  ELSE intersectPlane(rs.s, ray)

NoBest == [found |-> FALSE]

\* simulator.ts, lines 141-150: the best hit after surface s was tried
nearerOf(best, s, hit, lastSurfaceId) ==
  IF s.id = lastSurfaceId THEN best
  ELSE IF hit.isNull \/ hit.t <= 0 THEN best
  ELSE IF ~best.found \/ hit.t < best.bestT
  THEN [found |-> TRUE, bestT |-> hit.t, bestP |-> hit.p, bestS |-> s]
  ELSE best

\* simulator.ts, lines 136-151: the nearest valid hit, the first surface of
\* the list winning a tie
RECURSIVE NearestHit(_, _, _, _, _)
NearestHit(surfaces, ray, lastSurfaceId, i, best) ==
  IF i > Len(surfaces) THEN best
  ELSE NearestHit(surfaces, ray, lastSurfaceId, i + 1,
                  nearerOf(best, surfaces[i],
                           intersectRuntimeSurface(surfaces[i], ray),
                           lastSurfaceId))

\* simulator.ts, line 135: the loop condition, with one more iteration
loopContinuesInclusive(bounce, maxBounces) == bounce <= maxBounces

\* simulator.ts, line 135: the loop condition
loopContinues(bounce, maxBounces) == bounce < maxBounces

NoPoint == Vec3(0, 0, 0)

\* simulator.ts, lines 122-133: the locals of traceRayCore before its loop.
\* status is where the function is: "tracing" in the loop, "sensor" after
\* the return of lines 163-175, "nohit" after the break of line 153,
\* "stopped" after the break of line 177, "exhausted" when the loop
\* condition failed.
traceStart(plan, fieldAngle, pupilPoint, sampleSpec) ==
  [ray |-> [o |-> Vec3(pupilPoint.x, pupilPoint.y, plan.entrance.zStart_mm),
            d |-> [tx |-> fieldAngle, dz |-> 1]],
   lastSurfaceId |-> "",
   segments |-> <<>>,
   bounce |-> 0,
   status |-> IF loopContinues(0, sampleSpec.maxBounces)
              THEN "tracing" ELSE "exhausted",
   hitSensor |-> FALSE,
   hasPoint |-> FALSE,
   hitPoint |-> NoPoint]

\* simulator.ts, lines 153-186: what the iteration does with the nearest hit.
\* The origin of the reflected ray is the hit point: the 1e-6 of nudgeOrigin
\* is below the resolution, and a surface at the origin is no hit by line 144.
afterHit(plan, sampleSpec, record, st, best) ==
  LET segs == IF record
              THEN Append(st.segments,
                          [a |-> st.ray.o, b |-> best.bestP,
                           surfaceId |-> best.bestS.id])
              ELSE st.segments
  IN  IF ~best.found THEN [st EXCEPT !.status = "nohit"]
      ELSE IF best.bestS.id = plan.sensor.id
      THEN [st EXCEPT !.segments = segs, !.status = "sensor",
                      !.hitSensor = TRUE, !.hasPoint = TRUE,
                      !.hitPoint = best.bestP]
      ELSE IF best.bestS.material.kind # "reflector"
      THEN [st EXCEPT !.segments = segs, !.status = "stopped"]
      ELSE [st EXCEPT !.segments = segs,
                      !.ray = [o |-> best.bestP, d |-> reflect(st.ray.d)],
                      !.lastSurfaceId = best.bestS.id,
                      !.bounce = st.bounce + 1,
                      !.status = IF loopContinues(st.bounce + 1,
                                                  sampleSpec.maxBounces)
                                 THEN "tracing" ELSE "exhausted"]

\* simulator.ts, lines 135-187: one iteration of the loop of traceRayCore
bounceStep(plan, sampleSpec, sensorPlane, record, st) ==
  afterHit(plan, sampleSpec, record, st,
           NearestHit(buildRuntimeSurfaces(plan, sensorPlane), st.ray,
                      st.lastSurfaceId, 1, NoBest))

\* simulator.ts, lines 114-199
RECURSIVE runRay(_, _, _, _, _)
runRay(plan, sampleSpec, sensorPlane, record, st) ==
  IF st.status = "tracing"
  THEN runRay(plan, sampleSpec, sensorPlane, record,
              bounceStep(plan, sampleSpec, sensorPlane, record, st))
  ELSE st

traceRayCore(plan, fieldAngle, pupilPoint, sampleSpec, sensorPlane, record) ==
  runRay(plan, sampleSpec, sensorPlane, record,
         traceStart(plan, fieldAngle, pupilPoint, sampleSpec))

\* simulator.ts, lines 201-207, for a normal along z
shiftPlane(surface, shift_mm) ==
  [surface EXCEPT !.p0_mm = Vec3(surface.p0_mm.x, surface.p0_mm.y,
                                 surface.p0_mm.z + shift_mm)]

\* Math.sqrt on naturals, rounded down
RECURSIVE SqrtBetween(_, _, _)
SqrtBetween(n, lo, hi) ==
  IF lo >= hi THEN lo
  ELSE LET mid == (lo + hi + 1) \div 2
       IN  IF mid * mid <= n THEN SqrtBetween(n, mid, hi)
           ELSE SqrtBetween(n, lo, mid - 1)

Sqrt(n) == SqrtBetween(n, 0, 40000)

\* spot radii are kept in RmsScale-ths of a tenth of a millimetre
RmsScale == 10

\* simulator.ts, lines 229-232: the hit of one ray, in the basis planeBasis
\* gives for a normal along z: u = (0, -1, 0), v = (1, 0, 0)
hitInPlane(h, origin) ==
  IF ~h.hasPoint THEN <<>>
  ELSE <<[a |-> 0 - (h.hitPoint.y - origin.y), b |-> h.hitPoint.x - origin.x]>>

\* simulator.ts, lines 220-233: the hits of the pupil points
RECURSIVE HitsAtPlane(_, _, _, _, _, _)
HitsAtPlane(plan, fieldAngle, pupil, sampleSpec, sensorPlane, i) ==
  IF i > Len(pupil) THEN <<>>
  ELSE hitInPlane(traceRayCore(plan, fieldAngle, pupil[i], sampleSpec,
                               sensorPlane, FALSE),
                  sensorPlane.p0_mm)
       \o HitsAtPlane(plan, fieldAngle, pupil, sampleSpec, sensorPlane, i + 1)

RECURSIVE SumFrom(_, _)
SumFrom(values, i) ==
  IF i > Len(values) THEN 0 ELSE values[i] + SumFrom(values, i + 1)

NaNRms == [rms |-> NaN, rmsA |-> NaN, rmsB |-> NaN]

\* simulator.ts, line 235: too few hits for a spot, with a lower threshold
tooFewHitsBelowTwo(hits) == Len(hits) < 2

\* simulator.ts, line 235: too few hits for a spot
tooFewHits(hits) == Len(hits) < 3

\* simulator.ts, lines 235-257.  With n hits, the sum of (a - ca)^2 is
\* (n * sum a^2 - (sum a)^2) / n, so that no quotient is rounded before
\* the root is taken.
rmsOfHits(hits) ==
  LET n == Len(hits)
      sa == SumFrom([i \in 1..n |-> hits[i].a], 1)
      sb == SumFrom([i \in 1..n |-> hits[i].b], 1)
      saa == SumFrom([i \in 1..n |-> hits[i].a * hits[i].a], 1)
      sbb == SumFrom([i \in 1..n |-> hits[i].b * hits[i].b], 1)
      nva == n * saa - sa * sa
      nvb == n * sbb - sb * sb
  IN  IF tooFewHits(hits) THEN NaNRms
      ELSE [rms |-> Sqrt((nva + nvb) * RmsScale * RmsScale) \div n,
            rmsA |-> Sqrt(nva * RmsScale * RmsScale) \div n,
            rmsB |-> Sqrt(nvb * RmsScale * RmsScale) \div n]

\* simulator.ts, lines 209-258
rmsAtPlane(plan, fieldAngle, pupil, sampleSpec, sensorPlane) ==
  rmsOfHits(HitsAtPlane(plan, fieldAngle, pupil, sampleSpec, sensorPlane, 1))

\* simulator.ts, line 284: the offset replaces the best one, keeping the
\* largest spot
betterFocusLargest(r, bestRms) ==
  ~isFinite(bestRms.rms) \/ Gt(r.rms, bestRms.rms)

\* simulator.ts, line 284: the offset replaces the best one
betterFocus(r, bestRms) ==
  ~isFinite(bestRms.rms) \/ Lt(r.rms, bestRms.rms)

\* simulator.ts, line 273: Math.max(0.5, Math.abs(z0) * 1e-4), in tenths
focusStep(sensor0) ==
  LET z0 == sensor0.p0_mm.z
      absZ0 == IF z0 < 0 THEN 0 - z0 ELSE z0
  IN  Max(5, absZ0 \div 10000)

\* simulator.ts, lines 283-287: the best offset after one more was tried
focusPick(acc, shift, r) ==
  IF ~isFinite(r.rms) THEN acc
  ELSE IF betterFocus(r, acc.bestRms)
  THEN [bestShift_mm |-> shift, bestRms |-> r]
  ELSE acc

\* simulator.ts, lines 279-281: the spot at one offset
spotAtShift(plan, fieldAngle, pupil, sampleSpec, shift) ==
  rmsAtPlane(plan, fieldAngle, pupil, sampleSpec,
             shiftPlane(plan.sensor.plane, shift))

\* simulator.ts, lines 278-288
RECURSIVE FocusLoop(_, _, _, _, _, _, _)
FocusLoop(plan, fieldAngle, pupil, sampleSpec, step, i, acc) ==
  IF i > 4 THEN acc
  ELSE FocusLoop(plan, fieldAngle, pupil, sampleSpec, step, i + 1,
                 focusPick(acc, i * step,
                           spotAtShift(plan, fieldAngle, pupil, sampleSpec,
                                       i * step)))

\* simulator.ts, lines 290-294
focusResult(plan, acc) ==
  [bestShift_mm |-> acc.bestShift_mm,
   bestPlane |-> shiftPlane(plan.sensor.plane, acc.bestShift_mm),
   bestRms |-> acc.bestRms]

\* simulator.ts, lines 260-295
bestFocusForField(plan, fieldAngle, pupil, sampleSpec) ==
  focusResult(plan,
    FocusLoop(plan, fieldAngle, pupil, sampleSpec, focusStep(plan.sensor.plane),
              0 - 4, [bestShift_mm |-> 0, bestRms |-> NaNRms]))

\* simulator.ts, lines 300-310: the grid of pupil points inside the circle.
\* With one step, ix / (n - 1) is 0 / 0 and no point passes the comparison.
RECURSIVE PupilGrid(_, _, _)
PupilGrid(r, n, k) ==
  IF k >= n * n THEN <<>>
  ELSE LET ix == k % n
           iy == k \div n
           x == ((2 * ix - (n - 1)) * r) \div (n - 1)
           y == ((2 * iy - (n - 1)) * r) \div (n - 1)
           rest == PupilGrid(r, n, k + 1)
       IN  IF n = 1 THEN rest
           ELSE IF x * x + y * y <= r * r THEN <<[x |-> x, y |-> y]>> \o rest
           ELSE rest

pupilOf(plan, sampleSpec) ==
  PupilGrid(plan.entrance.pupilRadius_mm, Max(1, sampleSpec.pupil.steps), 0)

(***************************************************************************)
(* Optical plans and sample specs given to simulate.                       *)
(***************************************************************************)
circleAperture(radius, inner) ==
  [kind |-> "circle", radius_mm |-> radius, innerRadius_mm |-> inner]

conicMirror(id, z0, radius, inner) ==
  [kind |-> "conic", id |-> id, z0_mm |-> z0,
   aperture |-> circleAperture(radius, inner),
   material |-> [kind |-> "reflector"]]

planeAt(id, z, radius, materialKind) ==
  [kind |-> "plane", id |-> id, p0_mm |-> Vec3(0, 0, z),
   aperture |-> circleAperture(radius, 0),
   material |-> [kind |-> materialKind]]

entranceAt(zStart) ==
  [zStart_mm |-> zStart, pupilRadius_mm |-> 60, fieldAngles_rad |-> <<0, 1>>]

\* the plan that rc builds: a perforated primary at z = 0, a secondary in
\* front of it and the sensor behind the primary
PerforatedPlan ==
  [id |-> "perforated",
   entrance |-> entranceAt(0 - 175),
   surfaces |-> <<conicMirror("primary", 0, 60, 20),
                  conicMirror("secondary", 0 - 100, 20, 0)>>,
   sensor |-> [id |-> "sensor", plane |-> planeAt("sensor", 50, 30, "absorber")]]

\* a window or a stop in front of the sensor
WindowPlan(materialKind) ==
  [id |-> materialKind,
   entrance |-> entranceAt(0 - 100),
   surfaces |-> <<planeAt("window", 0 - 50, 80, materialKind)>>,
   sensor |-> [id |-> "sensor", plane |-> planeAt("sensor", 50, 90, "absorber")]]

\* a flat mirror that folds the beam back onto a sensor in front of it
FoldPlan ==
  [id |-> "fold",
   entrance |-> entranceAt(0 - 100),
   surfaces |-> <<planeAt("fold", 100, 80, "reflector")>>,
   sensor |-> [id |-> "sensor", plane |-> planeAt("sensor", 0, 30, "absorber")]]

\* a sensor alone, of a radius that some rays of the pupil miss
BarePlan(sensorRadius) ==
  [id |-> "bare",
   entrance |-> entranceAt(0 - 100),
   surfaces |-> <<>>,
   sensor |-> [id |-> "sensor",
               plane |-> planeAt("sensor", 50, sensorRadius, "absorber")]]

\* two flat mirrors entered under one id, the small one in front of the
\* large one, and the sensor behind the entrance
SegmentedPlan ==
  [id |-> "segmented",
   entrance |-> entranceAt(0 - 100),
   surfaces |-> <<planeAt("flat", 100, 80, "reflector"),
                  planeAt("flat", 0 - 50, 20, "reflector")>>,
   sensor |-> [id |-> "sensor",
               plane |-> planeAt("sensor", 0 - 120, 90, "absorber")]]

Plans ==
  {PerforatedPlan, WindowPlan("transmitter"), WindowPlan("absorber"), FoldPlan,
   BarePlan(68), BarePlan(90), SegmentedPlan}

SampleSpecs ==
  {[pupil |-> [kind |-> "grid", steps |-> n], maxBounces |-> b] :
     n \in 1..MaxSteps, b \in 0..MaxBounces}

(***************************************************************************)
(* simulate(plan, sampleSpec), one step per iteration of the loop of       *)
(* traceRayCore for the recorded rays; the best-focus search of a field    *)
(* angle is one step.                                                      *)
(***************************************************************************)
NoBestFocus ==
  [bestShift_mm |-> 0,
   bestPlane |-> planeAt("sensor", 0, 0, "absorber"),
   bestRms |-> NaNRms]

NoRay == traceStart(PerforatedPlan, 0, [x |-> 0, y |-> 0],
                    [pupil |-> [kind |-> "grid", steps |-> 1], maxBounces |-> 0])

\* the sweep engine is at rest while a simulation runs
TraceInit ==
  /\ Init
  /\ spec.designKinds = <<>>
  /\ spec.apertureUnits = "mm"
  /\ spec.constraints.tubeLengthUnits = "mm"
  /\ spec.sweep.primaryFRatioMin = 40
  /\ spec.sweep.primaryFRatioMax = 50
  /\ spec.sweep.primaryFRatioStep = 5
  /\ spec.weights.aberration = 10
  /\ seed = 0

\* simulator.ts, lines 299-313
Simulate ==
  /\ trace.pc = "idle"
  /\ call = NoCall
  /\ \E plan \in Plans, sampleSpec \in SampleSpecs :
       trace' = [pc |-> "field",
                 plan |-> plan,
                 sampleSpec |-> sampleSpec,
                 pupil |-> pupilOf(plan, sampleSpec),
                 fi |-> 1,
                 best |-> NoBestFocus,
                 pi |-> 1,
                 cur |-> NoRay,
                 rays |-> <<>>,
                 imageQuality |-> <<>>]
  /\ UNCHANGED sweepVars

\* the ray that simulate traces next, or none when the pupil is done
rayOrPush(t, best, pi) ==
  IF pi > Len(t.pupil)
  THEN [t EXCEPT !.pc = "push", !.best = best, !.pi = pi]
  ELSE [t EXCEPT !.pc = "ray", !.best = best, !.pi = pi,
                 !.cur = traceStart(t.plan, t.plan.entrance.fieldAngles_rad[t.fi],
                                    t.pupil[pi], t.sampleSpec)]

\* simulator.ts, lines 315-316
BestFocus ==
  /\ trace.pc = "field"
  /\ trace.fi <= Len(trace.plan.entrance.fieldAngles_rad)
  /\ trace' = rayOrPush(trace,
                        bestFocusForField(trace.plan,
                          trace.plan.entrance.fieldAngles_rad[trace.fi],
                          trace.pupil, trace.sampleSpec),
                        1)
  /\ UNCHANGED sweepVars

\* simulator.ts, lines 135-187, called from line 319 with record = true
Bounce ==
  /\ trace.pc = "ray"
  /\ trace.cur.status = "tracing"
  /\ trace' = [trace EXCEPT !.cur = bounceStep(trace.plan, trace.sampleSpec,
                                               trace.best.bestPlane, TRUE,
                                               trace.cur)]
  /\ UNCHANGED sweepVars

\* simulator.ts, lines 163-173 and 189-197: the TraceRay that is returned
traceRayOf(t) ==
  [fieldAngle_rad |-> t.plan.entrance.fieldAngles_rad[t.fi],
   pupil |-> t.pupil[t.pi],
   segments |-> t.cur.segments,
   hitSensor |-> t.cur.hitSensor,
   hasPoint |-> t.cur.hasPoint,
   sensorHitPoint_mm |-> t.cur.hitPoint,
   status |-> t.cur.status]

\* simulator.ts, lines 318-328
FinishRay ==
  /\ trace.pc = "ray"
  /\ trace.cur.status # "tracing"
  /\ trace' = rayOrPush([trace EXCEPT !.rays = Append(@, traceRayOf(trace))],
                        trace.best, trace.pi + 1)
  /\ UNCHANGED sweepVars

\* simulator.ts, lines 330-336
PushImageQuality ==
  /\ trace.pc = "push"
  /\ trace' = [trace EXCEPT
       !.pc = "field",
       !.fi = @ + 1,
       !.imageQuality = Append(@,
          [fieldAngle_rad |-> trace.plan.entrance.fieldAngles_rad[trace.fi],
           spotRms_mm |-> trace.best.bestRms.rms,
           spotRmsU_mm |-> trace.best.bestRms.rmsA,
           spotRmsV_mm |-> trace.best.bestRms.rmsB,
           bestFocusShift_mm |-> trace.best.bestShift_mm])]
  /\ UNCHANGED sweepVars

\* simulator.ts, line 339
Return ==
  /\ trace.pc = "field"
  /\ trace.fi > Len(trace.plan.entrance.fieldAngles_rad)
  /\ trace' = [trace EXCEPT !.pc = "returned"]
  /\ UNCHANGED sweepVars

(***************************************************************************)
(* src/optics/raytrace/adapt.ts: the image-quality adapter.                *)
(*                                                                         *)
(* Spot radii and the Airy radius are nanometres, the f-ratio is in        *)
(* tenths, the terms in waves are thousandths and the Strehl estimate is   *)
(* in 1 / One.  Missing is undefined: an omitted argument or field.        *)
(***************************************************************************)
Missing == NaN - 1

\* Number.isFinite: undefined is not a number
isFiniteNumber(v) == v # Missing /\ isFinite(v)

\* adapt.ts, lines 5-7
adaptFiniteOr(v, fallback) == IF isFiniteNumber(v) THEN v ELSE fallback

\* adapt.ts, lines 9-11
isFiniteNonNeg(v) == isFiniteNumber(v) /\ v >= 0

\* adapt.ts, lines 13-15
isFinitePos(v) == isFiniteNumber(v) /\ v > 0

\* v ?? fallback
orElse(v, fallback) == IF v = Missing THEN fallback ELSE v

\* Math.abs
absOf(v) ==
  IF v = Missing \/ v = NaN THEN NaN
  ELSE IF v = PosInf \/ v = NegInf THEN PosInf
  ELSE IF v < 0 THEN 0 - v ELSE v

\* 1.22 * 0.00055 mm, in nanometres
AIRY_NM_PER_F == 671

\* a slip: the f-ratio is not checked
airyRadiusMmUnchecked(F) ==
  IF ~isFiniteNumber(F) THEN F ELSE (AIRY_NM_PER_F * F) \div 10

\* adapt.ts, lines 17-20, with the default wavelength
airyRadiusMm(F) ==
  IF ~isFinitePos(F) THEN NaN ELSE (AIRY_NM_PER_F * F) \div 10

\* Math.exp(-z) for z >= 0 in thousandths, in 1 / One: e^-1 for each whole
\* unit and the series to the fourth power for the rest
RECURSIVE ExpNeg(_)
ExpNeg(z) ==
  IF z >= 12000 THEN 0
  ELSE IF z >= 1000 THEN (ExpNeg(z - 1000) * 3679) \div One
  ELSE LET t2 == (z * z) \div 1000
           t3 == (t2 * z) \div 1000
           t4 == (t3 * z) \div 1000
       IN  (1000 - z + t2 \div 2 - t3 \div 6 + t4 \div 24) * 10

\* a slip: a blur that is not a number is passed on
strehlFromBlurRatioPropagating(blurOverAiry) ==
  IF ~isFiniteNonNeg(blurOverAiry) THEN NaN
  ELSE LET x == (2 * PI_NUM * blurOverAiry) \div PI_DEN
       IN  ExpNeg((x * x) \div 1000)

\* adapt.ts, lines 22-26
strehlFromBlurRatio(blurOverAiry) ==
  IF ~isFiniteNonNeg(blurOverAiry) THEN 0
  ELSE LET x == (2 * PI_NUM * blurOverAiry) \div PI_DEN
       IN  ExpNeg((x * x) \div 1000)

\* adapt.ts, lines 41-49: a radius over the Airy radius, in waves
inWaves(r_mm, airy) ==
  IF isFiniteNonNeg(r_mm) /\ isFinitePos(airy) THEN (r_mm * 1000) \div airy
  ELSE NaN

\* adapt.ts, lines 51-52
astigOf(tan, sag) ==
  IF isFiniteNumber(tan) /\ isFiniteNumber(sag) THEN absOf(tan - sag) ELSE NaN

\* adapt.ts, lines 56-61
wfeOf(edgeWaves, onAxisWaves) ==
  IF isFiniteNumber(edgeWaves) /\ isFiniteNumber(onAxisWaves)
  THEN Max(edgeWaves, onAxisWaves)
  ELSE IF isFiniteNumber(edgeWaves) THEN edgeWaves
  ELSE onAxisWaves

\* onAxis?.spotRms_mm
spotRmsOf(onAxis) == IF onAxis.present THEN onAxis.spotRms_mm ELSE Missing

\* adapt.ts, lines 63-73, from the locals of lines 33-61
metricsOf(edge, airy, edge_mm, edgeWaves, onAxisWaves) ==
  [airy |-> airy,
   fieldAngle_rad |-> adaptFiniteOr(edge.fieldAngle_rad, 0),
   coma_wfeRms_waves_edge |-> edgeWaves,
   astig_wfeRms_waves_edge |->
     astigOf(inWaves(adaptFiniteOr(orElse(edge.spotRmsU_mm, edge_mm), edge_mm),
                     airy),
             inWaves(adaptFiniteOr(orElse(edge.spotRmsV_mm, edge_mm), edge_mm),
                     airy)),
   fieldCurvature_wfeRms_waves_edge |->
     adaptFiniteOr(absOf(orElse(edge.bestFocusShift_mm, NaN)), NaN),
   spherical_wfeRms_waves_edge |-> onAxisWaves,
   wfeRms_waves_edge |-> adaptFiniteOr(wfeOf(edgeWaves, onAxisWaves), NaN),
   strehl |-> strehlFromBlurRatio(edgeWaves)]

\* adapt.ts, lines 33-45
metricsFrom(edge, airy, edge_mm, onAxis_mm) ==
  metricsOf(edge, airy, edge_mm, inWaves(edge_mm, airy), inWaves(onAxis_mm, airy))

\* adapt.ts, lines 28-74; the Airy radius of line 33 is kept with the result
adaptRaytraceToMetrics(edge, systemFRatio, onAxis) ==
  metricsFrom(edge, airyRadiusMm(systemFRatio),
              adaptFiniteOr(edge.spotRms_mm, NaN),
              adaptFiniteOr(orElse(spotRmsOf(onAxis), NaN), NaN))

\* spot radii, in nanometres, and what may stand in their place
DirectSpotRms == {Missing, NaN, PosInf, 0 - 1000, 0, 100, 6000}
DirectSpotRmsUV == {Missing, NaN, 0, 4000}
DirectFocusShifts == {Missing, NaN, NegInf, 0 - 500000, 0}
DirectSystemFRatios == {Missing, NaN, PosInf, NegInf, 0, 0 - 80, 80}
DirectOnAxis ==
  {[present |-> FALSE]} \cup
  {[present |-> TRUE, spotRms_mm |-> r] : r \in {Missing, NaN, 50, 8000}}

\* adaptRaytraceToMetrics is exported: a direct call with any results
CallAdaptRaytraceToMetrics ==
  /\ trace.pc = "idle"
  /\ call = NoCall
  /\ \E rms \in DirectSpotRms, u \in DirectSpotRmsUV, v \in DirectSpotRmsUV,
        shift \in DirectFocusShifts, F \in DirectSystemFRatios,
        onAxis \in DirectOnAxis :
       LET edge == [fieldAngle_rad |-> 0, spotRms_mm |-> rms,
                    spotRmsU_mm |-> u, spotRmsV_mm |-> v,
                    bestFocusShift_mm |-> shift]
       IN  call' = [fn |-> "adaptRaytraceToMetrics", edge |-> edge,
                    systemFRatio |-> F, onAxis |-> onAxis,
                    out |-> adaptRaytraceToMetrics(edge, F, onAxis)]
  /\ UNCHANGED <<spec, topN, seed, pc, fpValues, fsValues, ti, candidates,
                 result, scoreBounds, console, trace>>

TraceNext ==
  \/ Simulate
  \/ BestFocus
  \/ Bounce
  \/ FinishRay
  \/ PushImageQuality
  \/ Return
  \/ CallAdaptRaytraceToMetrics

TraceSpec == TraceInit /\ [][TraceNext]_vars

(***************************************************************************)
(* Properties of the ray tracer.                                           *)
(***************************************************************************)
Tracing == trace.pc = "ray"

RayEnded == Tracing /\ trace.cur.status # "tracing"

\* the surface of the plan, or the sensor plane in use, with this id
SurfaceNamed(id) ==
  LET surfaces == buildRuntimeSurfaces(trace.plan, trace.best.bestPlane)
  IN  surfaces[CHOOSE i \in 1..Len(surfaces) : surfaces[i].id = id]

LastSegment == trace.cur.segments[Len(trace.cur.segments)]

\* the z position of a runtime surface
ZOf(rs) == IF rs.kind = "conic" THEN rs.s.z0 ELSE rs.s.p0.z

\* the square of the distance of a point from the optical axis
RadialDistance2(p) == p.x * p.x + p.y * p.y

\* C17: a ray whose nearest valid hit is on a transmitter passes through;
\* its trace never ends at that hit while bounces remain.
C17_TransmitterPassesThrough ==
  (RayEnded /\ trace.cur.status = "stopped")
    => SurfaceNamed(LastSegment.surfaceId).material.kind # "transmitter"

\* the point where a segment crosses the plane z = z, between its ends
CrossingAt(seg, z) ==
  Vec3(seg.a.x + ((seg.b.x - seg.a.x) * (z - seg.a.z)) \div (seg.b.z - seg.a.z),
       seg.a.y, z)

\* a surface that the segment crosses inside its outer aperture before the
\* segment's end, other than the surface the segment starts on
BlocksBeforeEnd(rs, seg, startId) ==
  /\ rs.id # startId
  /\ \/ seg.a.z < ZOf(rs) /\ ZOf(rs) < seg.b.z
     \/ seg.b.z < ZOf(rs) /\ ZOf(rs) < seg.a.z
  /\ RadialDistance2(CrossingAt(seg, ZOf(rs))) <= rs.s.apertureRadius * rs.s.apertureRadius

\* the id of the surface a segment of the current ray starts on
StartIdOf(k) == IF k = 1 THEN "" ELSE trace.cur.segments[k - 1].surfaceId

\* a surface ahead of the current ray that it would meet inside the outer
\* aperture
MeetsAhead(rs) ==
  LET ray == trace.cur.ray
      t == (ZOf(rs) - ray.o.z) * ray.d.dz
  IN  /\ rs.id # trace.cur.lastSurfaceId
      /\ t > 0
      /\ RadialDistance2(PointAt(ray, t)) <= rs.s.apertureRadius * rs.s.apertureRadius

RuntimeSurfaces ==
  LET surfaces == buildRuntimeSurfaces(trace.plan, trace.best.bestPlane)
  IN  {surfaces[i] : i \in 1..Len(surfaces)}

C18_WitnessSensor ==
  /\ RayEnded
  /\ trace.cur.hitSensor
  /\ Len(trace.cur.segments) >= 2

\* a ray that leaves the system
C18_WitnessNoHit ==
  /\ RayEnded
  /\ trace.cur.status = "nohit"
  /\ Len(trace.cur.segments) >= 1

\* C19: a hit closer to the axis than the inner aperture radius of its
\* surface is rejected; no segment of a ray ends there.
C19_InnerRadiusRejectsHit ==
  Tracing =>
    \A k \in 1..Len(trace.cur.segments) :
      LET seg == trace.cur.segments[k]
          inner == SurfaceNamed(seg.surfaceId).s.innerApertureRadius
      IN  ~(RadialDistance2(seg.b) < inner * inner)

\* the field angle whose best focus was just searched
FocusSearched == trace.pc = "push"

FocusOffsets == (0 - 4)..4

\* the sensor plane at offset i * step
PlaneAtOffset(i) ==
  shiftPlane(trace.plan.sensor.plane, i * focusStep(trace.plan.sensor.plane))

\* the spot at offset i * step for the field angle in hand
SpotAtOffset(i) ==
  rmsAtPlane(trace.plan, trace.plan.entrance.fieldAngles_rad[trace.fi],
             trace.pupil, trace.sampleSpec, PlaneAtOffset(i))

\* the pupil points whose ray reaches the sensor plane at offset i * step
SensorHitsAtOffset(i) ==
  {k \in 1..Len(trace.pupil) :
     traceRayCore(trace.plan, trace.plan.entrance.fieldAngles_rad[trace.fi],
                  trace.pupil[k], trace.sampleSpec, PlaneAtOffset(i),
                  FALSE).hitSensor}

FiniteOffsets == {i \in FocusOffsets : isFinite(SpotAtOffset(i).rms)}

\* C20: the best-focus search returns the offset i * step (i = -4..4) of
\* minimum finite RMS; an offset with fewer than 3 sensor hits has RMS NaN
\* and is skipped; when no offset has a finite RMS the spot RMS is NaN.
C20_BestFocusIsMinimumFiniteRms ==
  FocusSearched =>
    /\ \A i \in FocusOffsets :
         Cardinality(SensorHitsAtOffset(i)) < 3 => SpotAtOffset(i).rms = NaN
    /\ \A i \in FocusOffsets :
         Cardinality(SensorHitsAtOffset(i)) >= 3 => isFinite(SpotAtOffset(i).rms)
    /\ FiniteOffsets # {}
         => /\ \E i \in FiniteOffsets :
                 /\ trace.best.bestShift_mm = i * focusStep(trace.plan.sensor.plane)
                 /\ trace.best.bestRms = SpotAtOffset(i)
            /\ \A i \in FiniteOffsets :
                 trace.best.bestRms.rms <= SpotAtOffset(i).rms
            /\ trace.best.bestPlane = shiftPlane(trace.plan.sensor.plane,
                                                 trace.best.bestShift_mm)
    /\ FiniteOffsets = {} => trace.best.bestRms.rms = NaN

\* the spot differs between offsets and the smallest is not the first
C20_Witness ==
  /\ FocusSearched
  /\ isFinite(trace.best.bestRms.rms)
  /\ trace.best.bestShift_mm > 0
  /\ \E i \in FiniteOffsets : SpotAtOffset(i).rms > trace.best.bestRms.rms

\* some offsets are skipped for want of hits, others are not
C20_WitnessSkipped ==
  /\ FocusSearched
  /\ FiniteOffsets # {}
  /\ FiniteOffsets # FocusOffsets

\* rays reach the sensor, yet too few at every offset
C20_WitnessAllNaN ==
  /\ FocusSearched
  /\ FiniteOffsets = {}
  /\ \E i \in FocusOffsets : SensorHitsAtOffset(i) # {}

(***************************************************************************)
(* Properties of the image-quality adapter.                                *)
(***************************************************************************)
Adapted == call.fn = "adaptRaytraceToMetrics"

NotANumber(v) == ~isFiniteNumber(v)

\* C21: with a system f-ratio that is omitted, not finite or not positive,
\* the Airy radius and every term in waves (coma, spherical, astigmatism,
\* combined) are not finite, whatever the spot radii are.
C21_BadFRatioGivesNoWaves ==
  (Adapted /\ ~isFinitePos(call.systemFRatio))
    => /\ NotANumber(call.out.airy)
       /\ NotANumber(call.out.coma_wfeRms_waves_edge)
       /\ NotANumber(call.out.spherical_wfeRms_waves_edge)
       /\ NotANumber(call.out.astig_wfeRms_waves_edge)
       /\ NotANumber(call.out.wfeRms_waves_edge)

\* a negative f-ratio with every spot radius finite
C21_Witness ==
  /\ Adapted
  /\ call.systemFRatio = 0 - 80
  /\ call.edge.spotRms_mm = 100
  /\ call.edge.spotRmsU_mm = 4000
  /\ call.edge.spotRmsV_mm = 0
  /\ call.onAxis.present /\ call.onAxis.spotRms_mm = 50

\* the radii of the edge field that are missing or not finite
NoEdgeRms == NotANumber(call.edge.spotRms_mm)
NoOnAxisRms == ~call.onAxis.present \/ NotANumber(call.onAxis.spotRms_mm)
NoTangentialOrSagittal ==
  NotANumber(call.edge.spotRmsU_mm) \/ NotANumber(call.edge.spotRmsV_mm)
NoFocusShift == NotANumber(call.edge.bestFocusShift_mm)

C22_WitnessFallback ==
  /\ Adapted
  /\ call.systemFRatio = 80
  /\ call.edge.spotRms_mm = 100
  /\ call.edge.spotRmsU_mm = Missing
  /\ call.edge.spotRmsV_mm = 4000
  /\ isFiniteNumber(call.out.astig_wfeRms_waves_edge)
  /\ call.out.astig_wfeRms_waves_edge > 0
  /\ call.out.strehl > 0 /\ call.out.strehl < One


(***************************************************************************)
(* C23: every design generator, called by runSweep or directly on any      *)
(* InputSpec (minBackFocus > 0 included), is pure: it performs no I/O, so   *)
(* nothing is ever written to the console.  (That equal arguments give      *)
(* equal results holds by construction: each generator is an operator of   *)
(* its arguments.)                                                          *)
(***************************************************************************)
C23_GeneratorsWriteNothing == console = 0

\* a sweep over cassegrain with minBackFocus > 0 has produced a candidate and
\* written nothing, because runSweep hands the generators the relaxed spec
C23_WitnessSweepSilent ==
  /\ pc = "done"
  /\ shouldRunBackfocusDiag(spec)
  /\ \E i \in 1..Len(candidates) : candidates[i].kind = "cassegrain"
  /\ console = 0


(***************************************************************************)
(* C24: a sweep of a Newtonian-only spec with a 304.8 mm aperture and      *)
(* primaryFRatio from 4.0 to 5.0 in steps of 0.5 generates exactly three   *)
(* candidates, at Fp 4.0, 4.5 and 5.0 (the upper bound is included), and   *)
(* the tube length of each is Fp * 304.8 + 25 mm.                          *)
(***************************************************************************)
NewtonianSweep4To5 ==
  /\ spec.designKinds = <<"newtonian">>
  /\ toMm(spec.aperture, spec.apertureUnits) = 3048
  /\ spec.sweep.primaryFRatioMin = 40
  /\ spec.sweep.primaryFRatioMax = 50
  /\ spec.sweep.primaryFRatioStep = 5

\* Fp * 304.8 + 25 in tenths of a millimetre, for Fp 4.0, 4.5 and 5.0
ExpectedNewtonians ==
  <<[Fp |-> 40, tubeLength_mm |-> 12442],
    [Fp |-> 45, tubeLength_mm |-> 13966],
    [Fp |-> 50, tubeLength_mm |-> 15490]>>

C24_NewtonianSweepOfThree ==
  (pc = "done" /\ NewtonianSweep4To5) =>
    /\ Len(result.candidates) = 3
    /\ \A i \in 1..3 :
         /\ result.candidates[i].kind = "newtonian"
         /\ result.candidates[i].inputs.primaryFRatio = ExpectedNewtonians[i].Fp
         /\ result.candidates[i].geometry.tubeLength_mm
              = ExpectedNewtonians[i].tubeLength_mm

C24_Witness ==
  /\ pc = "done"
  /\ NewtonianSweep4To5
  /\ Len(result.candidates) = 3
  /\ result.candidates[3].inputs.primaryFRatio = 50


(***************************************************************************)
(* C25: runSweep completes and returns a SweepResult without throwing for  *)
(* every well-formed InputSpec, whichever of the four kinds designKinds    *)
(* selects: every generator is invoked with everything it needs.           *)
(***************************************************************************)
C25_SweepNeverThrows == pc # "threw"


(***************************************************************************)
(* C26: at each bounce the simulator tests the ray against every surface   *)
(* of the plan and the sensor and continues from the valid intersection    *)
(* with the smallest positive t: no surface that the ray validly           *)
(* intersects nearer than the selected hit is ignored.                     *)
(***************************************************************************)
\* the hit that the next iteration of the loop selects for the current ray
SelectedHit ==
  NearestHit(buildRuntimeSurfaces(trace.plan, trace.best.bestPlane),
             trace.cur.ray, trace.cur.lastSurfaceId, 1, NoBest)

\* the ray validly intersects this surface at a positive t
ValidlyHits(rs) ==
  LET hit == intersectRuntimeSurface(rs, trace.cur.ray)
  IN  ~hit.isNull /\ hit.t > 0

NothingNearer(best) ==
  \A rs \in RuntimeSurfaces :
    ValidlyHits(rs) =>
      /\ best.found
      /\ best.bestT <= intersectRuntimeSurface(rs, trace.cur.ray).t

C26_ContinuesFromNearestValidHit ==
  (Tracing /\ trace.cur.status = "tracing") => NothingNearer(SelectedHit)

\* the same of the surfaces whose id is not the id of the surface just left
C26_NearestAmongOtherIds ==
  (Tracing /\ trace.cur.status = "tracing") =>
    \A rs \in RuntimeSurfaces :
      (ValidlyHits(rs) /\ rs.id # trace.cur.lastSurfaceId) =>
        /\ SelectedHit.found
        /\ SelectedHit.bestT <= intersectRuntimeSurface(rs, trace.cur.ray).t


(***************************************************************************)
(* C27: when the configured systemFRatio range is empty or invalid (max <  *)
(* min or step <= 0), runSweep and inferDerivedLimits enumerate exactly    *)
(* one system focal ratio, spec.targetSystemFRatio; otherwise they         *)
(* enumerate exactly the configured inclusive range and never the          *)
(* fallback.                                                               *)
(***************************************************************************)
SystemRangeInvalid ==
  \/ spec.sweep.systemFRatioMax < spec.sweep.systemFRatioMin
  \/ spec.sweep.systemFRatioStep <= 0

\* min, min + step, ... up to and including max
ConfiguredSystemRange ==
  [k \in 1..((spec.sweep.systemFRatioMax - spec.sweep.systemFRatioMin)
               \div spec.sweep.systemFRatioStep + 1) |->
     spec.sweep.systemFRatioMin + (k - 1) * spec.sweep.systemFRatioStep]

\* runSweep has enumerated its ranges
SweepEnumerated == pc \in {"loop", "done", "threw", "inferred"}

\* inferDerivedLimits has been called on the spec
LimitsInferred == pc = "inferred" /\ call.fn = "inferDerivedLimits"

SystemValuesAre(expected) ==
  /\ SweepEnumerated => fsValues = expected
  /\ LimitsInferred => FsValuesOf(spec) = expected

C27_FallbackIsTheTarget ==
  IF SystemRangeInvalid
  THEN SystemValuesAre(<<spec.targetSystemFRatio>>)
  ELSE SystemValuesAre(ConfiguredSystemRange)

\* C27 as the code has it: the fallback is the target only when the target
\* is positive; with a target that is not, no system focal ratio is
\* enumerated.
C27_FallbackIsThePositiveTarget ==
  IF SystemRangeInvalid
  THEN SystemValuesAre(IF spec.targetSystemFRatio > 0
                       THEN <<spec.targetSystemFRatio>> ELSE <<>>)
  ELSE SystemValuesAre(ConfiguredSystemRange)

C27_Witness ==
  /\ LimitsInferred
  /\ SystemRangeInvalid
  /\ spec.targetSystemFRatio > 0
  /\ fsValues = <<spec.targetSystemFRatio>>

C27_WitnessNoTarget ==
  /\ LimitsInferred
  /\ SystemRangeInvalid
  /\ spec.targetSystemFRatio <= 0
  /\ fsValues = <<>>

C27_WitnessRange ==
  /\ LimitsInferred
  /\ ~SystemRangeInvalid
  /\ Len(fsValues) = 2


(***************************************************************************)
(* C28: runSweep and scoreCandidate never mutate their inputs.  The        *)
(* caller's InputSpec is the same after every step of runSweep; the        *)
(* relaxed spec is another value, which differs from it in the three       *)
(* relaxed constraints only; the constraint check returns the generated    *)
(* candidate with nothing but constraints replaced, and scoreCandidate     *)
(* the candidate it was given with nothing but score replaced.             *)
(***************************************************************************)
\* the generator's candidate of the trial that candidate c comes from
GeneratedFor(c) ==
  generatorFor(c.kind, relaxedSpecForInference(spec),
               [primaryFRatio |-> Trials[TrialIndex(c)].primaryFRatio,
                systemFRatio |-> Trials[TrialIndex(c)].systemFRatio], seed)

SameBut(field, a, b) ==
  CASE field = "score" -> [a EXCEPT !.score = b.score] = b
    [] field = "constraints" -> [a EXCEPT !.constraints = b.constraints] = b

RelaxedIsACopy ==
  [relaxedSpecForInference(spec) EXCEPT
     !.constraints.maxTubeLength = spec.constraints.maxTubeLength,
     !.constraints.maxObstructionRatio = spec.constraints.maxObstructionRatio,
     !.constraints.minBackFocus = spec.constraints.minBackFocus] = spec

InputsIntact ==
  /\ RelaxedIsACopy
  /\ pc \in {"loop", "done"} =>
       \A i \in 1..Len(candidates) :
         SameBut("constraints", candidates[i], GeneratedFor(candidates[i]))
  /\ pc = "done" =>
       /\ result.candidates = candidates
       /\ \A i \in 1..Len(result.ranked) :
            \E j \in 1..Len(candidates) :
              SameBut("score", result.ranked[i], candidates[j])
  /\ (pc = "called" /\ call.fn = "scoreCandidate") =>
       SameBut("score", call.out, call.candidate)

C28_InputsNeverMutated == []InputsIntact /\ [][spec' = spec]_vars

C28_Witness ==
  /\ pc = "done"
  /\ Len(result.ranked) >= 2
  /\ \E i \in 1..Len(candidates) : ~candidates[i].constraints.pass
  /\ relaxedSpecForInference(spec) # spec

C28_WitnessScored ==
  /\ pc = "called"
  /\ call.fn = "scoreCandidate"
  /\ call.out # call.candidate


(***************************************************************************)
(* C29: whenever runSweep has generated at least one candidate and returns *)
(* warnings, the adjusted constraints of derivedSpec are jointly           *)
(* satisfiable: runSweep of derivedSpec yields at least one passing        *)
(* candidate, and derivedSpec.derivedLimits is defined.                    *)
(***************************************************************************)
\* runSweep of the spec, as far as its candidates
Resweep(s) == SweepPrefix(s, seed, Len(TrialsOf(s)))

SomePassing(cs) == \E i \in 1..Len(cs) : cs[i].constraints.pass

\* the limits are given in millimetres, so that the adjusted values are
\* the candidates' own lengths and no unit conversion rounds them
LimitsInMm ==
  /\ spec.constraints.tubeLengthUnits = "mm"
  /\ spec.constraints.backFocusUnits = "mm"

AdjustedWithCandidates ==
  /\ pc = "done"
  /\ LimitsInMm
  /\ Len(result.candidates) >= 1
  /\ Len(result.warnings) >= 1

C29_AdjustedConstraintsAdmitACandidate ==
  AdjustedWithCandidates =>
    /\ ~Resweep(result.derivedSpec.spec).threw
    /\ SomePassing(Resweep(result.derivedSpec.spec).candidates)
    /\ result.derivedSpec.derivedLimits # Undefined


(***************************************************************************)
(* C30: for every ranked candidate, and for every candidate scoreCandidate *)
(* is handed, whatever its metrics (NaN, negative, infinite), each score   *)
(* term lies in [0, 1] and score.total is the weighted sum of the terms,   *)
(* a finite number, so the ranking never compares a NaN total.             *)
(***************************************************************************)
TermInUnitRange(v) == isFinite(v) /\ 0 <= v /\ v <= One

ScoreWellFormed(c, weights) ==
  /\ TermInUnitRange(c.score.terms.usableLight)
  /\ TermInUnitRange(c.score.terms.aberration)
  /\ TermInUnitRange(c.score.terms.obstruction)
  /\ c.score.total = weights.usableLight * c.score.terms.usableLight
                     + weights.aberration * c.score.terms.aberration
                     + weights.obstruction * c.score.terms.obstruction
  /\ isFinite(c.score.total)

C30_ScoreTermsInUnitRange ==
  /\ pc = "done" =>
       \A i \in 1..Len(result.ranked) :
         ScoreWellFormed(result.ranked[i], spec.weights)
  /\ (pc = "called" /\ call.fn = "scoreCandidate") =>
       ScoreWellFormed(call.out, spec.weights)

\* a ranking with a candidate whose wavefront error is NaN
C30_Witness ==
  /\ pc = "done"
  /\ Len(result.ranked) >= 2
  /\ \E i \in 1..Len(result.ranked) :
       ~isFinite(result.ranked[i].aberrations.wfeRms_waves_edge)
  /\ spec.weights.aberration > 0

\* a candidate whose three metrics are NaN, scored directly
C30_WitnessNaN ==
  /\ pc = "called"
  /\ call.fn = "scoreCandidate"
  /\ call.candidate.throughput.usableLightEfficiency = NaN
  /\ call.candidate.geometry.obstructionRatio = NaN
  /\ call.candidate.aberrations.wfeRms_waves_edge = NaN

\* a candidate with metrics outside [0, 1] and an infinite wavefront error
C30_WitnessOutOfRange ==
  /\ pc = "called"
  /\ call.fn = "scoreCandidate"
  /\ call.candidate.throughput.usableLightEfficiency > One
  /\ call.candidate.geometry.obstructionRatio < 0
  /\ call.candidate.aberrations.wfeRms_waves_edge = PosInf

====
